---- MODULE Spec2Model ----
(***************************************************************************)
(* A model of the streaming SBOM converter: run() of src/src/lib.rs, the   *)
(* single-pass CycloneDX -> SPDX pipeline with its relationship side file  *)
(* (src/src/converter_cdx_to_spdx.rs) and the three-pass SPDX -> CycloneDX *)
(* pipeline (src/src/converter_spdx_to_cdx.rs, visitors of                 *)
(* src/src/models_spdx.rs).                                                *)
(*                                                                         *)
(* A file is the sequence of the records written to it; every record is a  *)
(* TLA+ record with a field t naming its kind.  Strings the code takes     *)
(* apart or puts together (ids, bom-refs) are sequences of characters.     *)
(* The CycloneDX input is a stream read once: what the reader meets next   *)
(* (a key, an array element, the end of an array) is drawn when the        *)
(* visitor asks for it, and cdxInput keeps what has been read.  The SPDX    *)
(* input is a file opened once for each of the three passes, so it is      *)
(* there from the start, in doc; DefaultHasher and Uuid::new_v4 give       *)
(* values the model does not compute: see DefaultHashers and Uuids.        *)
(***************************************************************************)
EXTENDS Integers, Sequences, FiniteSets, TLC

VARIABLES
    pc,            \* position of the run
    result,        \* "running", "ok" or "err": what run() returns
    failedAt,      \* the position at which an error was raised ("" if none)
    direction,     \* Config.direction
    outExists,     \* the main output file exists on disk
    out,           \* records written to the main output file
    sideExists,    \* the relationship side file exists on disk
    side,          \* lines of the side file
    replayed,      \* number of side-file lines read back
    firstElement,  \* first_element of convert_cdx_to_spdx
    firstRelationship, \* first_relationship of convert_cdx_to_spdx
    cdxInput,      \* the root keys read so far, each with the records read
    doc,           \* the SPDX input file: its root keys, each with its array
    splitVex,      \* Config.split_vex
    packagesOnly,  \* Config.packages_only
    inputPath,     \* working_input_path of run()
    outputPath,    \* Config.output_file
    hashOf,        \* the value DefaultHasher gives for each URI
    index,         \* SpdxRelationshipIndex built by Pass 1
    sec,           \* the root key the reader is in (0: before the first)
    pos,           \* array elements of that key read so far
    serialNumber,  \* serial_number made by Pass 2
    firstComponent, \* first_component of SpdxPass2Visitor
    visited,       \* index keys taken by the dependencies loop, in its order
    firstDep,      \* first_dep of pass_2_convert_and_write
    vexPath,       \* vex_path of convert_spdx_to_cdx
    vexExists,     \* the VEX file exists on disk
    vex,           \* records written to the VEX file
    vulnerabilities,  \* vulnerabilities collected by Pass 3
    vexRelationships, \* vex_relationships collected by Pass 3
    firstVuln,     \* first_vuln of JsonLdVulnState
    written,       \* collected vulnerabilities the write loop has taken
    warnings,      \* warnings printed by the SPDX -> CycloneDX pipeline, in order
    cdxComponent,  \* a component of a CycloneDX `components` array, as JSON
    spdxElement,   \* an element of an SPDX `elements` or `@graph` array, as JSON
    cdxResult,     \* the component a handler of SPDX -> CycloneDX writes, as JSON
    versionArg,    \* the value of --output-version on the command line, if any
    outputVersion, \* Config.output_version
    inputFormat,   \* input_format of run()
    outputFormat,  \* output_format of run()
    validate,      \* Config.validate
    schemaValid,   \* the input file passes validate_json_schema
    elementsProcessed,      \* ProgressTracker.elements_processed
    relationshipsProcessed, \* ProgressTracker.relationships_processed
    lastReportCount,        \* ProgressTracker.last_report_count
    tpc,           \* where each thread stands in increment_element
    count,         \* `count` of increment_element, of each thread
    lastLoaded,    \* `last` of increment_element, of each thread
    calls          \* calls of increment_element each thread has made

runVars == <<pc, result, failedAt>>
cdxVars == <<sideExists, side, replayed, firstElement, firstRelationship, cdxInput>>
argVars == <<versionArg, outputVersion, inputFormat, outputFormat, validate, schemaValid>>
trackerVars == <<lastReportCount, tpc, count, lastLoaded, calls>>
cfgVars ==
    <<doc, splitVex, packagesOnly, inputPath, outputPath, hashOf, argVars, trackerVars>>
readVars == <<sec, pos>>
pass2Vars == <<serialNumber, firstComponent, visited, firstDep>>
vexFile == <<vexPath, vexExists, vex>>
pass3Vars == <<vulnerabilities, vexRelationships, firstVuln, written>>
unitVars == <<cdxComponent, spdxElement, cdxResult>>
progressVars == <<elementsProcessed, relationshipsProcessed>>
spdxNoProgress ==
    <<cfgVars, index, readVars, pass2Vars, vexFile, pass3Vars, warnings, unitVars>>
spdxVars == <<spdxNoProgress, progressVars>>
vars == <<pc, result, failedAt, direction, outExists, out, cdxVars, spdxVars>>

-----------------------------------------------------------------------------
(* Bounds of the model *)

\* root keys of one input document
MaxKeys == 3
\* records of one input document, all arrays together
MaxRecs == 2
\* relationships of one input document: entries of all dependsOn and affects
\* lists together, that is, lines of the side file
MaxTargets == 2

-----------------------------------------------------------------------------
(* Strings *)

S_SPDXRef == <<"S", "P", "D", "X", "R", "e", "f", "-">>
S_Vulnerability == <<"V", "u", "l", "n", "e", "r", "a", "b", "i", "l", "i", "t", "y", "-">>

SeqsUpTo(S, n) == UNION {[1..k -> S] : k \in 0..n}

-----------------------------------------------------------------------------
(* The CycloneDX input *)

BomRefs == {<<"a">>, <<"b">>}
VulnIds == {<<"C", "V", "E", "-", "1">>}
ComponentTypes == {"library", "file"}
\* Option<Vec<CdxAffects>>: None, or Some of a list
NoAffects == [some |-> FALSE, refs |-> <<>>]
SomeAffects(refs) == [some |-> TRUE, refs |-> refs]

CdxKeys == {"components", "dependencies", "vulnerabilities", "metadata"}

CdxComponents == [bomRef : BomRefs, type : ComponentTypes]
CdxDependencies == [ref : BomRefs, dependsOn : SeqsUpTo(BomRefs, MaxTargets)]
CdxVulnerabilities ==
    [id : VulnIds,
     affects : {SomeAffects(refs) : refs \in SeqsUpTo(BomRefs, MaxTargets)} \cup {NoAffects}]

RECURSIVE TotalRecs(_)
TotalRecs(sections) ==
    IF sections = <<>> THEN 0
    ELSE Len(Head(sections).recs) + TotalRecs(Tail(sections))

KeysOf(sections) == {sections[i].key : i \in 1..Len(sections)}

\* the section being streamed, and the input with one more record in it
CurrentKey == cdxInput[Len(cdxInput)].key
WithRecord(r) ==
    [cdxInput EXCEPT ![Len(cdxInput)].recs = Append(@, r)]

-----------------------------------------------------------------------------
(* Records of the output files *)

SpdxHeader == [t |-> "header"]
OpenArray(name) == [t |-> "open", name |-> name]
CloseArray(name) == [t |-> "close", name |-> name]
\* the comma between two elements of an array, and the one after a closed array
Separator == [t |-> "sep"]
Comma == [t |-> "comma"]
EndObject == [t |-> "end"]

ElementRecord(e) == [t |-> "element", spdxId |-> e.spdxId, type |-> e.type]
RelationshipRecord(r) ==
    [t |-> "relationship", from |-> r.from, type |-> r.type, to |-> r.to]

\* SpdxPackage::from_cdx_component, the fields the pipeline claims are about
FromCdxComponent(comp) ==
    [spdxId |-> S_SPDXRef \o comp.bomRef,
     type |-> IF comp.type = "file" THEN "SpdxFile" ELSE "SpdxPackage"]

-----------------------------------------------------------------------------
(* run(): file handling and dispatch *)

\* `?` on a failed operation: run() returns the error at once
Raise(kind) ==
    /\ pc' = "done"
    /\ result' = "err"
    /\ failedAt' = kind

\* lib.rs, "3. File Handling": open the input, create the output
RunOpenFiles ==
    /\ pc = "run"
    /\ \/ /\ Raise("input_open")
          /\ UNCHANGED <<outExists, out>>
       \/ /\ Raise("output_create")
          /\ UNCHANGED <<outExists, out>>
       \/ /\ outExists' = TRUE
          /\ out' = <<>>
          /\ pc' = "dispatch"
          /\ UNCHANGED <<result, failedAt>>
    /\ UNCHANGED <<direction, cdxVars, spdxVars>>

-----------------------------------------------------------------------------
(* CycloneDX -> SPDX *)

\* convert_cdx_to_spdx, steps 1-5: side file, header, start of `elements`
ConvertCdxToSpdxBegin ==
    /\ pc = "dispatch"
    /\ direction = "CdxToSpdx"
    /\ \/ /\ Raise("temp_create")
          /\ UNCHANGED <<out, sideExists, side, firstElement>>
       \/ /\ sideExists' = TRUE
          /\ side' = <<>>
          /\ Raise("output_write")
          /\ UNCHANGED <<out, firstElement>>
       \/ /\ sideExists' = TRUE
          /\ side' = <<>>
          /\ out' = out \o <<SpdxHeader, OpenArray("elements")>>
          /\ firstElement' = TRUE
          /\ pc' = "visit_map"
          /\ UNCHANGED <<result, failedAt>>
    /\ UNCHANGED <<direction, outExists, replayed, firstRelationship, cdxInput, spdxVars>>

\* CdxVisitor::visit_map: the next root key, or the end of the root object
CdxVisitMap ==
    /\ pc = "visit_map"
    /\ \/ /\ Len(cdxInput) < MaxKeys
          /\ \E key \in CdxKeys \ KeysOf(cdxInput) :
                /\ cdxInput' = Append(cdxInput, [key |-> key, recs |-> <<>>])
                /\ pc' = IF key \in {"components", "dependencies", "vulnerabilities"}
                         THEN key
                         ELSE "visit_map"
       \/ /\ pc' = "close_elements"
          /\ UNCHANGED cdxInput
    /\ UNCHANGED <<result, failedAt, direction, outExists, out, sideExists, side,
                   replayed, firstElement, firstRelationship, spdxVars>>

\* handle_cdx_component: what it appends to the main output
HandleCdxComponent(component, first) ==
    (IF first THEN <<>> ELSE <<Separator>>)
        \o <<ElementRecord(FromCdxComponent(component))>>

\* the records of `o` before its first vulnerability element, and the rest
RECURSIVE BeforeVulnerabilities(_)
BeforeVulnerabilities(o) ==
    IF o = <<>> \/ (Head(o).t = "element" /\ Head(o).type = "SpdxVulnerability")
    THEN <<>>
    ELSE <<Head(o)>> \o BeforeVulnerabilities(Tail(o))
FromVulnerabilities(o) == SubSeq(o, Len(BeforeVulnerabilities(o)) + 1, Len(o))

\* a visitor that sorts as it writes: a component goes in front of the
\* vulnerability elements already written
ComponentArrayVisitSeqComponentsFirst ==
    /\ pc = "components"
    /\ \/ /\ TotalRecs(cdxInput) < MaxRecs
          /\ \E component \in CdxComponents :
                /\ cdxInput' = WithRecord(component)
                /\ out' = IF FromVulnerabilities(out) = <<>>
                          THEN out \o HandleCdxComponent(component, firstElement)
                          ELSE BeforeVulnerabilities(out)
                               \o <<ElementRecord(FromCdxComponent(component)), Separator>>
                               \o FromVulnerabilities(out)
          /\ firstElement' = FALSE
          /\ elementsProcessed' = elementsProcessed + 1
          /\ UNCHANGED <<pc, relationshipsProcessed>>
       \/ /\ pc' = "visit_map"
          /\ UNCHANGED <<cdxInput, out, firstElement, progressVars>>
    /\ UNCHANGED <<result, failedAt, direction, outExists, sideExists, side,
                   replayed, firstRelationship, spdxNoProgress>>

\* what handle_cdx_component appends for the components of `recs`, one after
\* the other
RECURSIVE HandleCdxComponents(_, _)
HandleCdxComponents(recs, first) ==
    IF recs = <<>> THEN <<>>
    ELSE HandleCdxComponent(Head(recs), first) \o HandleCdxComponents(Tail(recs), FALSE)

\* a visitor that collects the components of the array and writes them when
\* the array ends
ComponentArrayVisitSeqCollect ==
    /\ pc = "components"
    /\ \/ /\ TotalRecs(cdxInput) < MaxRecs
          /\ \E component \in CdxComponents : cdxInput' = WithRecord(component)
          /\ elementsProcessed' = elementsProcessed + 1
          /\ UNCHANGED <<pc, out, firstElement, relationshipsProcessed>>
       \/ /\ pc' = "visit_map"
          /\ out' = out \o HandleCdxComponents(cdxInput[Len(cdxInput)].recs, firstElement)
          /\ firstElement' = (firstElement /\ cdxInput[Len(cdxInput)].recs = <<>>)
          /\ UNCHANGED <<cdxInput, progressVars>>
    /\ UNCHANGED <<result, failedAt, direction, outExists, sideExists, side,
                   replayed, firstRelationship, spdxNoProgress>>

\* ComponentArrayVisitor::visit_seq, one turn of its loop
ComponentArrayVisitSeq ==
    /\ pc = "components"
    /\ \/ /\ TotalRecs(cdxInput) < MaxRecs
          /\ \E component \in CdxComponents :
                /\ cdxInput' = WithRecord(component)
                /\ out' = out \o HandleCdxComponent(component, firstElement)
          /\ firstElement' = FALSE
          /\ elementsProcessed' = elementsProcessed + 1
          /\ UNCHANGED <<pc, relationshipsProcessed>>
       \/ /\ pc' = "visit_map"
          /\ UNCHANGED <<cdxInput, out, firstElement, progressVars>>
    /\ UNCHANGED <<result, failedAt, direction, outExists, sideExists, side,
                   replayed, firstRelationship, spdxNoProgress>>

\* a handler that takes the targets from the back of the list
HandleCdxDependencyReversed(dep) ==
    [i \in 1..Len(dep.dependsOn) |->
        RelationshipRecord([from |-> S_SPDXRef \o dep.ref,
                            type |-> "DEPENDS_ON",
                            to |-> S_SPDXRef \o dep.dependsOn[Len(dep.dependsOn) + 1 - i]])]

\* handle_cdx_dependency: the lines it appends to the side file
HandleCdxDependency(dep) ==
    [i \in 1..Len(dep.dependsOn) |->
        RelationshipRecord([from |-> S_SPDXRef \o dep.ref,
                            type |-> "DEPENDS_ON",
                            to |-> S_SPDXRef \o dep.dependsOn[i]])]

\* a visitor that writes the relationships inline, to the main output
DependencyArrayVisitSeqInline ==
    /\ pc = "dependencies"
    /\ \/ /\ TotalRecs(cdxInput) < MaxRecs
          /\ \E dep \in CdxDependencies :
                /\ Len(side) + Len(dep.dependsOn) <= MaxTargets
                /\ cdxInput' = WithRecord(dep)
                /\ out' = out \o HandleCdxDependency(dep)
          /\ relationshipsProcessed' = relationshipsProcessed + 1
          /\ UNCHANGED <<pc, side, elementsProcessed>>
       \/ /\ pc' = "visit_map"
          /\ UNCHANGED <<cdxInput, side, out, progressVars>>
    /\ UNCHANGED <<result, failedAt, direction, outExists, sideExists,
                   replayed, firstElement, firstRelationship, spdxNoProgress>>

\* DependencyArrayVisitor::visit_seq, one turn of its loop
DependencyArrayVisitSeq ==
    /\ pc = "dependencies"
    /\ \/ /\ TotalRecs(cdxInput) < MaxRecs
          /\ \E dep \in CdxDependencies :
                /\ Len(side) + Len(dep.dependsOn) <= MaxTargets
                /\ cdxInput' = WithRecord(dep)
                /\ side' = side \o HandleCdxDependency(dep)
          /\ relationshipsProcessed' = relationshipsProcessed + 1
          /\ UNCHANGED <<pc, elementsProcessed>>
       \/ /\ pc' = "visit_map"
          /\ UNCHANGED <<cdxInput, side, progressVars>>
    /\ UNCHANGED <<result, failedAt, direction, outExists, out, sideExists,
                   replayed, firstElement, firstRelationship, spdxNoProgress>>

\* handle_cdx_vulnerability, step 1: the element written to the main output
VulnSpdxId(vuln) == S_SPDXRef \o S_Vulnerability \o vuln.id
HandleCdxVulnerabilityElement(vuln, first) ==
    (IF first THEN <<>> ELSE <<Separator>>)
        \o <<ElementRecord([spdxId |-> VulnSpdxId(vuln), type |-> "SpdxVulnerability"])>>

\* handle_cdx_vulnerability, step 2: the lines appended to the side file
HandleCdxVulnerabilityAffects(vuln) ==
    IF ~vuln.affects.some THEN <<>>
    ELSE [i \in 1..Len(vuln.affects.refs) |->
            RelationshipRecord([from |-> VulnSpdxId(vuln),
                                type |-> "AFFECTS",
                                to |-> S_SPDXRef \o vuln.affects.refs[i]])]

\* VulnerabilityArrayVisitor::visit_seq, one turn of its loop
VulnerabilityArrayVisitSeq ==
    /\ pc = "vulnerabilities"
    /\ \/ /\ TotalRecs(cdxInput) < MaxRecs
          /\ \E vuln \in CdxVulnerabilities :
                /\ Len(side) + Len(vuln.affects.refs) <= MaxTargets
                /\ cdxInput' = WithRecord(vuln)
                /\ out' = out \o HandleCdxVulnerabilityElement(vuln, firstElement)
                /\ side' = side \o HandleCdxVulnerabilityAffects(vuln)
          /\ firstElement' = FALSE
          /\ elementsProcessed' = elementsProcessed + 1
          /\ UNCHANGED <<pc, relationshipsProcessed>>
       \/ /\ pc' = "visit_map"
          /\ UNCHANGED <<cdxInput, out, side, firstElement, progressVars>>
    /\ UNCHANGED <<result, failedAt, direction, outExists, sideExists,
                   replayed, firstRelationship, spdxNoProgress>>

\* a failure while the visitor runs: the input does not decode (JsonParse),
\* or a handler's write to the main output or to the side file fails
CdxVisitorError ==
    /\ pc \in {"visit_map", "components", "dependencies", "vulnerabilities"}
    /\ \E kind \in {"decode", "output_write", "side_write"} :
          /\ kind = "output_write" => pc \in {"components", "vulnerabilities"}
          /\ kind = "side_write" => pc \in {"dependencies", "vulnerabilities"}
          /\ Raise(kind)
    /\ UNCHANGED <<direction, outExists, out, cdxVars, spdxVars>>

\* convert_cdx_to_spdx, steps 6-8: close `elements`, open `relationships`,
\* flush the side file and open it for reading
ConvertCdxToSpdxSplice ==
    /\ pc = "close_elements"
    /\ \/ /\ \E kind \in {"output_write", "side_write", "side_read"} : Raise(kind)
          /\ UNCHANGED <<out, replayed, firstRelationship>>
       \/ /\ out' = out \o <<CloseArray("elements"), Comma, OpenArray("relationships")>>
          /\ replayed' = 0
          /\ firstRelationship' = TRUE
          /\ pc' = "replay"
          /\ UNCHANGED <<result, failedAt>>
    /\ UNCHANGED <<direction, outExists, sideExists, side, firstElement, cdxInput, spdxVars>>

\* convert_cdx_to_spdx, the loop of step 8: one line of the side file.  A line
\* is one serialized relationship, so it is never blank and trim() leaves it.
ReplayLine ==
    /\ pc = "replay"
    /\ replayed < Len(side)
    /\ \/ /\ \E kind \in {"output_write", "side_read"} : Raise(kind)
          /\ UNCHANGED <<out, replayed, firstRelationship>>
       \/ /\ out' = out \o (IF firstRelationship THEN <<>> ELSE <<Separator>>)
                        \o <<side[replayed + 1]>>
          /\ replayed' = replayed + 1
          /\ firstRelationship' = FALSE
          /\ UNCHANGED <<pc, result, failedAt>>
    /\ UNCHANGED <<direction, outExists, sideExists, side, firstElement, cdxInput, spdxVars>>

\* convert_cdx_to_spdx, step 9: close `relationships` and the root object
ConvertCdxToSpdxEnd ==
    /\ pc = "replay"
    /\ replayed = Len(side)
    /\ \/ /\ Raise("output_write")
          /\ UNCHANGED out
       \/ /\ out' = out \o <<CloseArray("relationships"), EndObject>>
          /\ pc' = "cleanup"
          /\ UNCHANGED <<result, failedAt>>
    /\ UNCHANGED <<direction, outExists, cdxVars, spdxVars>>

\* run(), after convert_cdx_to_spdx returned Ok: remove the side file
RunCleanupTemp ==
    /\ pc = "cleanup"
    /\ sideExists' = FALSE
    /\ pc' = "done"
    /\ result' = "ok"
    /\ UNCHANGED <<failedAt, direction, outExists, out, side, replayed,
                   firstElement, firstRelationship, cdxInput, spdxVars>>

\* a path: its directory and its file name, split at the dots
NoPath == [dir |-> "", name |-> <<>>]

\* Option<T>
None == [some |-> FALSE]
Some(v) == [some |-> TRUE, val |-> v]

\* CdxVersion::default, CliCdxVersion::default
CdxVersionDefault == "V1_6"

\* a run of JSON to JSON without --output-version and without --validate
InitArgsIdle ==
    /\ versionArg = None
    /\ outputVersion = CdxVersionDefault
    /\ inputFormat = "Json"
    /\ outputFormat = "Json"
    /\ validate = FALSE
    /\ schemaValid = TRUE

\* threads that call increment_element on clones of one ProgressTracker
NumThreads == 2
Threads == 1..NumThreads

\* ProgressTracker::new; no thread is inside increment_element
InitProgress ==
    /\ elementsProcessed = 0
    /\ relationshipsProcessed = 0
    /\ lastReportCount = 0
    /\ tpc = [t \in Threads |-> "idle"]
    /\ count = [t \in Threads |-> 0]
    /\ lastLoaded = [t \in Threads |-> 0]
    /\ calls = [t \in Threads |-> 0]

\* no component is being converted on its own
InitUnitIdle ==
    /\ cdxComponent = None
    /\ spdxElement = None
    /\ cdxResult = None

\* the state of the SPDX -> CycloneDX pipeline while it does not run
InitSpdxIdle ==
    /\ doc = <<>>
    /\ splitVex = FALSE
    /\ packagesOnly = FALSE
    /\ inputPath = NoPath
    /\ outputPath = NoPath
    /\ hashOf = <<>>
    /\ index = <<>>
    /\ sec = 0
    /\ pos = 0
    /\ serialNumber = <<>>
    /\ firstComponent = TRUE
    /\ visited = <<>>
    /\ firstDep = TRUE
    /\ vexPath = NoPath
    /\ vexExists = FALSE
    /\ vex = <<>>
    /\ vulnerabilities = <<>>
    /\ vexRelationships = <<>>
    /\ firstVuln = TRUE
    /\ written = 0
    /\ warnings = <<>>

\* the state of the CycloneDX -> SPDX pipeline while it does not run
InitCdxIdle ==
    /\ sideExists = FALSE
    /\ side = <<>>
    /\ replayed = 0
    /\ firstElement = TRUE
    /\ firstRelationship = TRUE
    /\ cdxInput = <<>>

InitCdx ==
    /\ pc = "run"
    /\ result = "running"
    /\ failedAt = ""
    /\ direction = "CdxToSpdx"
    /\ outExists = FALSE
    /\ out = <<>>
    /\ InitCdxIdle
    /\ InitSpdxIdle
    /\ InitUnitIdle
    /\ InitArgsIdle
    /\ InitProgress

NextCdx ==
    \/ RunOpenFiles
    \/ ConvertCdxToSpdxBegin
    \/ CdxVisitMap
    \/ ComponentArrayVisitSeq
    \/ DependencyArrayVisitSeq
    \/ VulnerabilityArrayVisitSeq
    \/ CdxVisitorError
    \/ ConvertCdxToSpdxSplice
    \/ ReplayLine
    \/ ConvertCdxToSpdxEnd
    \/ RunCleanupTemp

SpecCdx == InitCdx /\ [][NextCdx]_vars

-----------------------------------------------------------------------------
(* SPDX -> CycloneDX: identifiers *)

S_Http == <<"h", "t", "t", "p", ":", "/", "/">>
S_Https == <<"h", "t", "t", "p", "s", ":", "/", "/">>
S_Element == <<"e", "l", "e", "m", "e", "n", "t">>
S_VulnerabilityPath ==
    <<"/", "v", "u", "l", "n", "e", "r", "a", "b", "i", "l", "i", "t", "y", "/">>
S_UrnUuid == <<"u", "r", "n", ":", "u", "u", "i", "d", ":">>

\* char::is_alphabetic, on the characters of the model
Alphabetic ==
    {"a", "b", "c", "d", "e", "f", "g", "h", "i", "j", "k", "l", "m", "n", "o", "p",
     "q", "r", "s", "t", "u", "v", "w", "x", "y", "z",
     "A", "B", "C", "D", "E", "F", "G", "H", "I", "J", "K", "L", "M", "N", "O", "P",
     "Q", "R", "S", "T", "U", "V", "W", "X", "Y", "Z"}

\* str::starts_with and str::strip_prefix(..).unwrap_or(..)
StartsWith(s, prefix) ==
    /\ Len(s) >= Len(prefix)
    /\ SubSeq(s, 1, Len(prefix)) = prefix
StripPrefix(s, prefix) ==
    IF StartsWith(s, prefix) THEN SubSeq(s, Len(prefix) + 1, Len(s)) ELSE s

\* s.rsplit('/').next(): what follows the last '/' of s, or s when it has none
RSplitFirst(s) ==
    LET slashes == {i \in 1..Len(s) : s[i] = "/"}
    IN  IF slashes = {} THEN s
        ELSE SubSeq(s, (CHOOSE i \in slashes : \A j \in slashes : j <= i) + 1, Len(s))

\* format!("{:x}", hash): the digits of a 64-bit value, given as its sixteen
\* hexadecimal digits, without the leading zeros
RECURSIVE LowerHex(_)
LowerHex(digits) ==
    IF Len(digits) > 1 /\ Head(digits) = "0" THEN LowerHex(Tail(digits)) ELSE digits

\* extract_bom_ref
ExtractBomRef(spdxId) ==
    IF StartsWith(spdxId, S_Http) \/ StartsWith(spdxId, S_Https)
    THEN LET last == RSplitFirst(spdxId)
             namePart == IF last # <<>> /\ (\E i \in 1..Len(last) : last[i] \in Alphabetic)
                         THEN last
                         ELSE S_Element
         IN  namePart \o <<"-">> \o LowerHex(hashOf[spdxId])
    ELSE StripPrefix(spdxId, S_SPDXRef)

-----------------------------------------------------------------------------
(* SPDX -> CycloneDX: the input, the configuration and the file names *)

\* elements of the `elements` array
MaxElements == 2
\* elements of the `relationships` array
MaxRels == 2
\* elements of the `@graph` array
MaxGraph == 3

SeqsOf(S, n) == UNION {[1..k -> S] : k \in 0..n}

\* ids of the simple-JSON documents
Id_a == S_SPDXRef \o <<"a">>
Id_b == S_SPDXRef \o <<"b">>
Id_v == S_SPDXRef \o S_Vulnerability \o <<"C", "V", "E", "-", "1">>

\* ids of the JSON-LD documents; the last segment of U_b has no letter
U_a == S_Https \o <<"e", "/", "a">>
U_b == S_Https \o <<"e", "/", "1">>
U_v == S_Https \o <<"e">> \o S_VulnerabilityPath \o <<"C", "V", "E", "-", "1">>
U_w == S_Https \o <<"e", "/", "w">>

\* SpdxElementMinimal
SpdxElements ==
    {[spdxId |-> Id_a, type |-> "SpdxPackage"],
     [spdxId |-> Id_b, type |-> "SpdxFile"],
     [spdxId |-> Id_v, type |-> "SpdxVulnerability"]}

\* SpdxRelationshipMinimal
SpdxRelationships ==
    {r \in [spdxElementId : {Id_a, Id_b},
            relationshipType : {"DEPENDS_ON", "AFFECTS"},
            relatedSpdxElement : {Id_a, Id_b}] :
        r.relationshipType = "AFFECTS" => r.spdxElementId # r.relatedSpdxElement}

\* JsonLdElement
JsonLdElements ==
    {[type |-> "software_Package", spdxId |-> U_a],
     [type |-> "software_File", spdxId |-> U_b]}

\* JsonLdRelationship
JsonLdRelationships ==
    {r \in [type : {"Relationship"},
            from : {U_a, U_b},
            relationshipType : {"dependsOn", "contains", "hasDeclaredLicense"},
            to : {<<U_b>>, <<U_b, U_a>>}] :
        /\ r.from = U_b <=> r.relationshipType = "hasDeclaredLicense"
        /\ r.relationshipType # "dependsOn" => Len(r.to) = 1}

\* Option<Vec<SpdxExternalIdentifier>>, the identifier of type "cve" in it
NoCve == [some |-> FALSE, id |-> <<>>]

\* JsonLdVulnerability
JsonLdVulnerabilities ==
    {[type |-> "security_Vulnerability", spdxId |-> U_v, cve |-> NoCve],
     [type |-> "security_Vulnerability", spdxId |-> U_w, cve |-> NoCve]}

\* JsonLdVexRelationship
JsonLdVexRelationships ==
    {[type |-> "security_VexNotAffectedVulnAssessmentRelationship",
      from |-> U_v, to |-> <<U_a>>],
     [type |-> "security_VexFixedVulnAssessmentRelationship",
      from |-> U_v, to |-> <<U_a>>],
     [type |-> "security_VexAffectedVulnAssessmentRelationship",
      from |-> U_v, to |-> <<U_a, U_b>>]}

GraphEntries ==
    JsonLdElements \cup JsonLdRelationships \cup JsonLdVulnerabilities
        \cup JsonLdVexRelationships

Section(key, recs) == [key |-> key, recs |-> recs]

\* simple-JSON documents: `elements` and `relationships`, each present or
\* not, in either order
SimpleDocs ==
    LET E == {Section("elements", x) : x \in SeqsOf(SpdxElements, MaxElements)}
        R == {Section("relationships", x) : x \in SeqsOf(SpdxRelationships, MaxRels)}
    IN  {<<>>} \cup {<<e>> : e \in E} \cup {<<r>> : r \in R}
            \cup {<<e, r>> : e \in E, r \in R} \cup {<<r, e>> : e \in E, r \in R}

\* JSON-LD documents: one `@graph`
JsonLdDocs == {<<Section("@graph", x)>> : x \in SeqsOf(GraphEntries, MaxGraph)}

Docs == SimpleDocs \cup JsonLdDocs

\* the ids ExtractBomRef hashes, and what DefaultHasher gives for them: a
\* 64-bit value is its sixteen hexadecimal digits, which here stand for the
\* digits SipHash computes; one value has leading zeros
HashedIds == {U_a, U_b, U_v, U_w}
Hex16(digits) ==
    [i \in 1..16 |-> IF i <= 16 - Len(digits) THEN "0" ELSE digits[i - (16 - Len(digits))]]
H_long == [i \in 1..16 |-> IF i % 2 = 1 THEN "f" ELSE "3"]
H_short == Hex16(<<"a", "7">>)
H_other == Hex16(<<"1", "0", "c">>)
DefaultHashers ==
    {[u \in HashedIds |-> IF u = U_a THEN H_long ELSE IF u = U_b THEN H_short ELSE H_other]}

\* Path::with_extension: the part of the file name after its last dot, if
\* there is one, gives way to `ext` (itself split at the dots; <<>> is "")
WithExtension(path, ext) ==
    LET stem == IF Len(path.name) > 1
                THEN SubSeq(path.name, 1, Len(path.name) - 1)
                ELSE path.name
    IN  [dir |-> path.dir, name |-> stem \o ext]

\* vex_path of convert_spdx_to_cdx
VexPathOf(path) == WithExtension(WithExtension(path, <<>>), <<"vex", "json">>)

InputPaths ==
    {[dir |-> "in", name |-> <<"sbom", "spdx", "json">>],
     [dir |-> "out", name |-> <<"bom", "spdx", "json">>]}
OutputPaths == {[dir |-> "out", name |-> <<"bom", "cdx", "json">>]}

\* Uuid::new_v4
Uuids == {<<"1">>, <<"2">>}

-----------------------------------------------------------------------------
(* SPDX -> CycloneDX: records of the CycloneDX output and the handlers *)

\* a writer that knows the default version only
AsStrDefault(version) == "1.6"

\* CdxVersion::as_str
AsStr(version) ==
    CASE version = "V1_3" -> "1.3"
      [] version = "V1_4" -> "1.4"
      [] version = "V1_5" -> "1.5"
      [] version = "V1_6" -> "1.6"
      [] version = "V1_7" -> "1.7"

CdxHeader(serial, version) ==
    [t |-> "header", specVersion |-> AsStr(version), serialNumber |-> serial]
ComponentRecord(c) == [t |-> "component", bomRef |-> c.bomRef, type |-> c.type]
DependencyRecord(d) == [t |-> "dependency", ref |-> d.ref, dependsOn |-> d.dependsOn]
VulnerabilityRecord(v) ==
    [t |-> "vulnerability", id |-> v.id, state |-> v.state, affects |-> v.affects]

Range(f) == {f[x] : x \in DOMAIN f}

\* index.entry(key).or_default().push(rel)
IndexPush(idx, key, rel) ==
    IF key \in DOMAIN idx
    THEN [idx EXCEPT ![key] = Append(@, rel)]
    ELSE [k \in DOMAIN idx \cup {key} |-> IF k = key THEN <<rel>> ELSE idx[k]]

\* JsonLdGraphStreamVisitor: one index entry for every target of `rel`
RECURSIVE IndexPushTargets(_, _, _)
IndexPushTargets(idx, rel, targets) ==
    IF targets = <<>> THEN idx
    ELSE IndexPushTargets(
            IndexPush(idx, rel.from,
                      [spdxElementId |-> rel.from,
                       relationshipType |-> rel.relationshipType,
                       relatedSpdxElement |-> Head(targets)]),
            rel, Tail(targets))

\* handle_spdx_element: what it appends to the main output
HandleSpdxElement(element, first) ==
    IF element.type \in {"SpdxPackage", "software_Package", "SpdxFile", "software_File"}
    THEN (IF first THEN <<>> ELSE <<Separator>>)
            \o <<ComponentRecord(
                    [bomRef |-> ExtractBomRef(element.spdxId),
                     type |-> IF element.type \in {"SpdxPackage", "software_Package"}
                              THEN "library"
                              ELSE "file"])>>
    ELSE <<>>

\* a handler that takes the spdxId as the bom-ref
HandleJsonLdElementRawId(element, first) ==
    (IF first THEN <<>> ELSE <<Separator>>)
        \o <<ComponentRecord(
                [bomRef |-> element.spdxId,
                 type |-> IF element.type = "software_Package" THEN "library" ELSE "file"])>>

\* handle_jsonld_element: what it appends to the main output
HandleJsonLdElement(element, first) ==
    (IF first THEN <<>> ELSE <<Separator>>)
        \o <<ComponentRecord(
                [bomRef |-> ExtractBomRef(element.spdxId),
                 type |-> IF element.type = "software_Package" THEN "library" ELSE "file"])>>

\* a test that lets AFFECTS through as well
IsDependsOnOrAffects(relType) ==
    relType \in {"DEPENDS_ON", "dependsOn", "contains", "AFFECTS"}

\* pass_2_convert_and_write, the test on rel_type in the dependencies loop
IsDependsOn(relType) == relType \in {"DEPENDS_ON", "dependsOn", "contains"}

\* pass_2_convert_and_write, depends_on of one index key
DependsOnOf(relationships) ==
    LET kept == SelectSeq(relationships, LAMBDA r : IsDependsOn(r.relationshipType))
    IN  [i \in 1..Len(kept) |-> ExtractBomRef(kept[i].relatedSpdxElement)]

\* pass_2_convert_and_write, the body of the dependencies loop for one key
WriteDependency(spdxId, relationships, first) ==
    IF DependsOnOf(relationships) # <<>>
    THEN (IF first THEN <<>> ELSE <<Separator>>)
            \o <<DependencyRecord([ref |-> ExtractBomRef(spdxId),
                                   dependsOn |-> DependsOnOf(relationships)])>>
    ELSE <<>>

\* a close that always leaves the comma
CloseDependenciesWithComma(split) ==
    <<CloseArray("dependencies"), Comma>>

\* pass_2_convert_and_write, "Close dependencies array"
CloseDependencies(split) ==
    IF split THEN <<CloseArray("dependencies")>>
    ELSE <<CloseArray("dependencies"), Comma>>

\* the first place at which `pat` stands in `s`, 0 if it stands nowhere
Find(s, pat) ==
    LET at == {i \in 1..(Len(s) - Len(pat) + 1) : SubSeq(s, i, i + Len(pat) - 1) = pat}
    IN  IF at = {} THEN 0 ELSE CHOOSE i \in at : \A j \in at : i <= j

\* JsonLdVulnerability::extract_cve_id: Option<String> as [some, id]
ExtractCveId(vuln) ==
    IF vuln.cve.some THEN [some |-> TRUE, id |-> vuln.cve.id]
    ELSE LET i == Find(vuln.spdxId, S_VulnerabilityPath)
         IN  IF i = 0 THEN [some |-> FALSE, id |-> <<>>]
             ELSE LET rest == SubSeq(vuln.spdxId, i + Len(S_VulnerabilityPath),
                                     Len(vuln.spdxId))
                      j == Find(rest, S_VulnerabilityPath)
                  IN  [some |-> TRUE,
                       id |-> IF j = 0 THEN rest ELSE SubSeq(rest, 1, j - 1)]

\* JsonLdVexRelationship::map_state
MapState(vexRel) ==
    IF vexRel.type = "security_VexNotAffectedVulnAssessmentRelationship" THEN "not_affected"
    ELSE IF vexRel.type = "security_VexFixedVulnAssessmentRelationship" THEN "resolved"
    ELSE "in_triage"

\* JsonLdGraphPass3Visitor::visit_seq, one entry of `affects`
AffectsRef(serial, spdxId) == serial \o <<"#">> \o ExtractBomRef(spdxId)

RECURSIVE Flatten(_)
Flatten(seqs) == IF seqs = <<>> THEN <<>> ELSE Head(seqs) \o Flatten(Tail(seqs))

\* an `affects` of the targets of the first matching relationship only
AffectsOfFirst(vuln, vexRels, serial) ==
    LET mine == SelectSeq(vexRels, LAMBDA v : v.from = vuln.spdxId)
        targets == IF mine = <<>> THEN <<>> ELSE mine[1].to
    IN  [i \in 1..Len(targets) |-> AffectsRef(serial, targets[i])]

\* JsonLdGraphPass3Visitor::visit_seq, `affects` of one vulnerability
AffectsOf(vuln, vexRels, serial) ==
    LET mine == SelectSeq(vexRels, LAMBDA v : v.from = vuln.spdxId)
        targets == Flatten([i \in 1..Len(mine) |-> mine[i].to])
    IN  [i \in 1..Len(targets) |-> AffectsRef(serial, targets[i])]

\* a state taken from the last matching relationship
StateOfLast(vuln, vexRels) ==
    LET mine == SelectSeq(vexRels, LAMBDA v : v.from = vuln.spdxId)
    IN  IF mine = <<>> THEN "not_affected" ELSE MapState(mine[Len(mine)])

\* JsonLdGraphPass3Visitor::visit_seq, `state` of one vulnerability
StateOf(vuln, vexRels) ==
    LET mine == SelectSeq(vexRels, LAMBDA v : v.from = vuln.spdxId)
    IN  IF mine = <<>> THEN "not_affected" ELSE MapState(mine[1])

\* JsonLdGraphPass3Visitor::visit_seq, the body of the write loop
WriteVulnerability(vuln, vexRels, serial, first) ==
    IF ExtractCveId(vuln).some
    THEN (IF first THEN <<>> ELSE <<Separator>>)
            \o <<VulnerabilityRecord([id |-> ExtractCveId(vuln).id,
                                      state |-> StateOf(vuln, vexRels),
                                      affects |-> AffectsOf(vuln, vexRels, serial)])>>
    ELSE <<>>

\* pass_3_extract_vulnerabilities, the head of the document it writes
Pass3Header(serial, separateFile, version) ==
    (IF separateFile THEN <<CdxHeader(serial, version)>> ELSE <<>>)
        \o <<OpenArray("vulnerabilities")>>

-----------------------------------------------------------------------------
(* SPDX -> CycloneDX, Pass 1: the relationship index *)

\* what no step of this pipeline changes
fixedNoProgress == <<direction, outExists, cdxVars, cfgVars, unitVars>>
fixedVars == <<fixedNoProgress, progressVars>>

\* the element the reader is at
Current == doc[sec].recs[pos + 1]

\* convert_spdx_to_cdx calls pass_1_build_index: an empty index, the reader
\* at the start of the input
Pass1BuildIndexBegin ==
    /\ pc = "dispatch"
    /\ direction = "SpdxToCdx"
    /\ index' = <<>>
    /\ sec' = 0
    /\ pos' = 0
    /\ pc' = "p1_map"
    /\ UNCHANGED <<result, failedAt, out, fixedVars, warnings, pass2Vars, vexFile, pass3Vars>>

\* found_relationships, found_elements: one of `keys` is among the root keys
\* the reader has met
Found(keys) == \E i \in 1..sec : doc[i].key \in keys

\* a Pass 1 that takes the index as complete at the first `elements` key
SpdxPass1VisitMapUntilElements ==
    /\ pc = "p1_map"
    /\ IF sec < Len(doc) /\ doc[sec + 1].key # "elements"
       THEN /\ sec' = sec + 1
            /\ pos' = 0
            /\ pc' = CASE doc[sec + 1].key = "relationships" -> "p1_relationships"
                       [] doc[sec + 1].key = "@graph" -> "p1_graph"
                       [] OTHER -> "p1_map"
            /\ UNCHANGED warnings
       ELSE /\ warnings' = IF Found({"relationships", "@graph"}) THEN warnings
                           ELSE Append(warnings, "no_relationships")
            /\ pc' = "p2_begin"
            /\ UNCHANGED <<sec, pos>>
    /\ UNCHANGED <<result, failedAt, out, index, fixedVars, pass2Vars, vexFile, pass3Vars>>

\* SpdxPass1Visitor::visit_map: the next root key; at the end of the root
\* object a warning if no key held relationships, and pass_1_build_index
\* returns the index
SpdxPass1VisitMap ==
    /\ pc = "p1_map"
    /\ IF sec < Len(doc)
       THEN /\ sec' = sec + 1
            /\ pos' = 0
            /\ pc' = CASE doc[sec + 1].key = "relationships" -> "p1_relationships"
                       [] doc[sec + 1].key = "@graph" -> "p1_graph"
                       [] OTHER -> "p1_map"
            /\ UNCHANGED warnings
       ELSE /\ warnings' = IF Found({"relationships", "@graph"}) THEN warnings
                           ELSE Append(warnings, "no_relationships")
            /\ pc' = "p2_begin"
            /\ UNCHANGED <<sec, pos>>
    /\ UNCHANGED <<result, failedAt, out, index, fixedVars, pass2Vars, vexFile, pass3Vars>>

\* SpdxRelationshipStreamVisitor::visit_seq, one turn of its loop
SpdxRelationshipStreamVisitSeq ==
    /\ pc = "p1_relationships"
    /\ IF pos < Len(doc[sec].recs)
       THEN /\ index' = IndexPush(index, Current.spdxElementId, Current)
            /\ pos' = pos + 1
            /\ relationshipsProcessed' = relationshipsProcessed + 1
            /\ UNCHANGED <<pc, elementsProcessed>>
       ELSE /\ pc' = "p1_map"
            /\ UNCHANGED <<index, pos, progressVars>>
    /\ UNCHANGED <<result, failedAt, out, sec, fixedNoProgress, warnings, pass2Vars, vexFile, pass3Vars>>

\* JsonLdGraphStreamVisitor::visit_seq, one turn of its loop
JsonLdGraphStreamVisitSeq ==
    /\ pc = "p1_graph"
    /\ IF pos < Len(doc[sec].recs)
       THEN /\ index' = IF Current.type \in {"Relationship", "LifecycleScopedRelationship"}
                        THEN IndexPushTargets(index, Current, Current.to)
                        ELSE index
            /\ pos' = pos + 1
            /\ relationshipsProcessed' =
                  IF Current.type \in {"Relationship", "LifecycleScopedRelationship"}
                  THEN relationshipsProcessed + Len(Current.to)
                  ELSE relationshipsProcessed
            /\ UNCHANGED <<pc, elementsProcessed>>
       ELSE /\ pc' = "p1_map"
            /\ UNCHANGED <<index, pos, progressVars>>
    /\ UNCHANGED <<result, failedAt, out, sec, fixedNoProgress, warnings, pass2Vars, vexFile, pass3Vars>>

\* the input does not decode in Pass 1: `?` at the call of pass_1_build_index
Pass1Error ==
    /\ pc \in {"p1_map", "p1_relationships", "p1_graph"}
    /\ Raise("pass1_decode")
    /\ UNCHANGED <<out, index, readVars, fixedVars, warnings, pass2Vars, vexFile, pass3Vars>>

-----------------------------------------------------------------------------
(* SPDX -> CycloneDX, Pass 2: components and dependencies *)

\* convert_spdx_to_cdx re-opens the input; pass_2_convert_and_write makes the
\* serial number, writes the header and opens `components`
Pass2Begin ==
    /\ pc = "p2_begin"
    /\ \/ /\ \E kind \in {"pass2_reopen", "pass2_write"} : Raise(kind)
          /\ UNCHANGED <<out, readVars, pass2Vars>>
       \/ /\ \E uuid \in Uuids :
                /\ serialNumber' = S_UrnUuid \o uuid
                /\ out' = out \o <<CdxHeader(S_UrnUuid \o uuid, outputVersion), OpenArray("components")>>
          /\ firstComponent' = TRUE
          /\ sec' = 0
          /\ pos' = 0
          /\ pc' = "p2_map"
          /\ UNCHANGED <<result, failedAt, visited, firstDep>>
    /\ UNCHANGED <<index, fixedVars, warnings, vexFile, pass3Vars>>

\* SpdxPass2Visitor::visit_map, the match on the next root key
SpdxPass2Next ==
    CASE doc[sec + 1].key = "elements" -> "p2_elements"
      [] doc[sec + 1].key = "@graph" -> "p2_graph"
      [] OTHER -> "p2_map"

\* SpdxPass2Visitor::visit_map: the next root key; at the end of the root
\* object a warning if no key held elements
SpdxPass2VisitMap ==
    /\ pc = "p2_map"
    /\ IF sec < Len(doc)
       THEN /\ sec' = sec + 1
            /\ pos' = 0
            /\ pc' = SpdxPass2Next
            /\ UNCHANGED warnings
       ELSE /\ warnings' = IF Found({"elements", "@graph"}) THEN warnings
                           ELSE Append(warnings, "no_elements")
            /\ pc' = "p2_close"
            /\ UNCHANGED <<sec, pos>>
    /\ UNCHANGED <<result, failedAt, out, index, fixedVars, pass2Vars, vexFile, pass3Vars>>

\* SpdxElementStreamVisitor::visit_seq, one turn of its loop
SpdxElementStreamVisitSeq ==
    /\ pc = "p2_elements"
    /\ IF pos < Len(doc[sec].recs)
       THEN /\ out' = out \o HandleSpdxElement(Current, firstComponent)
            /\ firstComponent' = (firstComponent
                                    /\ HandleSpdxElement(Current, firstComponent) = <<>>)
            /\ warnings' = IF Current.type \in {"SpdxVulnerability", "security_Vulnerability"}
                           THEN Append(warnings, "vulnerability_skipped")
                           ELSE warnings
            /\ pos' = pos + 1
            /\ elementsProcessed' = elementsProcessed + 1
            /\ UNCHANGED <<pc, relationshipsProcessed>>
       ELSE /\ pc' = "p2_map"
            /\ UNCHANGED <<out, firstComponent, pos, warnings, progressVars>>
    /\ UNCHANGED <<result, failedAt, sec, index, serialNumber, visited, firstDep,
                   fixedNoProgress, vexFile, pass3Vars>>

\* JsonLdGraphPass2Visitor::visit_seq, what one turn of its loop appends
JsonLdGraphPass2Entry(value, first) ==
    IF value.type = "software_File" /\ packagesOnly THEN <<>>
    ELSE IF value.type \in {"software_Package", "software_File"}
         THEN HandleJsonLdElement(value, first)
         ELSE <<>>

\* JsonLdGraphPass2Visitor::visit_seq, one turn of its loop
JsonLdGraphPass2VisitSeq ==
    /\ pc = "p2_graph"
    /\ IF pos < Len(doc[sec].recs)
       THEN /\ out' = out \o JsonLdGraphPass2Entry(Current, firstComponent)
            /\ firstComponent' = (firstComponent
                                    /\ JsonLdGraphPass2Entry(Current, firstComponent) = <<>>)
            /\ pos' = pos + 1
            /\ elementsProcessed' =
                  IF Current.type \in {"software_Package", "software_File",
                                       "security_Vulnerability"}
                  THEN elementsProcessed + 1
                  ELSE elementsProcessed
            /\ UNCHANGED <<pc, relationshipsProcessed>>
       ELSE /\ pc' = "p2_map"
            /\ UNCHANGED <<out, firstComponent, pos, progressVars>>
    /\ UNCHANGED <<result, failedAt, sec, index, serialNumber, visited, firstDep,
                   fixedNoProgress, warnings, vexFile, pass3Vars>>

\* a failure while the Pass 2 visitor runs: the input does not decode, or a
\* handler's write fails
Pass2Error ==
    /\ pc \in {"p2_map", "p2_elements", "p2_graph"}
    /\ \E kind \in {"pass2_decode", "pass2_write"} :
          /\ kind = "pass2_write" => pc \in {"p2_elements", "p2_graph"}
          /\ Raise(kind)
    /\ UNCHANGED <<out, index, readVars, fixedVars, warnings, pass2Vars, vexFile, pass3Vars>>

\* pass_2_convert_and_write: close `components`, open `dependencies`
Pass2OpenDependencies ==
    /\ pc = "p2_close"
    /\ \/ /\ Raise("pass2_write")
          /\ UNCHANGED <<out, visited, firstDep>>
       \/ /\ out' = out \o <<CloseArray("components"), Comma, OpenArray("dependencies")>>
          /\ visited' = <<>>
          /\ firstDep' = TRUE
          /\ pc' = "p2_deps"
          /\ UNCHANGED <<result, failedAt>>
    /\ UNCHANGED <<index, readVars, serialNumber, firstComponent, fixedVars, warnings, vexFile,
                   pass3Vars>>

\* pass_2_convert_and_write, one turn of `for (spdx_id, relationships) in
\* index.iter()`: a HashMap gives its keys in an order of its own
Pass2WriteDependency ==
    /\ pc = "p2_deps"
    /\ \E spdxId \in DOMAIN index \ Range(visited) :
          \/ /\ WriteDependency(spdxId, index[spdxId], firstDep) # <<>>
             /\ Raise("pass2_write")
             /\ UNCHANGED <<out, visited, firstDep>>
          \/ /\ out' = out \o WriteDependency(spdxId, index[spdxId], firstDep)
             /\ firstDep' = (firstDep /\ WriteDependency(spdxId, index[spdxId], firstDep) = <<>>)
             /\ visited' = Append(visited, spdxId)
             /\ UNCHANGED <<pc, result, failedAt>>
    /\ UNCHANGED <<index, readVars, serialNumber, firstComponent, fixedVars, warnings, vexFile,
                   pass3Vars>>

\* pass_2_convert_and_write: close `dependencies`, flush, return the serial number
Pass2End ==
    /\ pc = "p2_deps"
    /\ DOMAIN index = Range(visited)
    /\ \/ /\ Raise("pass2_write")
          /\ UNCHANGED out
       \/ /\ out' = out \o CloseDependencies(splitVex)
          /\ pc' = "p3_open"
          /\ UNCHANGED <<result, failedAt>>
    /\ UNCHANGED <<index, readVars, pass2Vars, fixedVars, warnings, vexFile, pass3Vars>>

-----------------------------------------------------------------------------
(* SPDX -> CycloneDX, Pass 3: vulnerabilities *)

\* a write of Pass 3 goes to the VEX file when split_vex is set, to the main
\* output otherwise
Pass3Write(records) ==
    IF splitVex
    THEN /\ vex' = vex \o records
         /\ UNCHANGED out
    ELSE /\ out' = out \o records
         /\ UNCHANGED vex

\* convert_spdx_to_cdx between Pass 2 and Pass 3: re-open the input, then,
\* with split_vex, close the main document and create the VEX file
Pass3Open ==
    /\ pc = "p3_open"
    /\ \/ /\ Raise("pass3_reopen")
          /\ UNCHANGED <<out, vexFile>>
       \/ /\ splitVex
          /\ Raise("main_close")
          /\ UNCHANGED <<out, vexFile>>
       \/ /\ splitVex
          /\ out' = out \o <<EndObject>>
          /\ vexPath' = VexPathOf(inputPath)
          /\ Raise("vex_create")
          /\ UNCHANGED <<vexExists, vex>>
       \/ /\ splitVex
          /\ out' = out \o <<EndObject>>
          /\ vexPath' = VexPathOf(inputPath)
          /\ vexExists' = TRUE
          /\ vex' = <<>>
          /\ pc' = "p3_begin"
          /\ UNCHANGED <<result, failedAt>>
       \/ /\ ~splitVex
          /\ pc' = "p3_begin"
          /\ UNCHANGED <<result, failedAt, out, vexFile>>
    /\ UNCHANGED <<index, readVars, pass2Vars, fixedVars, warnings, pass3Vars>>

\* pass_3_extract_vulnerabilities: the header of a separate file, the start
\* of `vulnerabilities`
Pass3Begin ==
    /\ pc = "p3_begin"
    /\ \/ /\ Raise("pass3_write")
          /\ UNCHANGED <<out, vex, readVars, firstVuln>>
       \/ /\ Pass3Write(Pass3Header(serialNumber, splitVex, outputVersion))
          /\ firstVuln' = TRUE
          /\ sec' = 0
          /\ pos' = 0
          /\ pc' = "p3_map"
          /\ UNCHANGED <<result, failedAt>>
    /\ UNCHANGED <<index, pass2Vars, fixedVars, warnings, vexPath, vexExists, vulnerabilities,
                   vexRelationships, written>>

\* SpdxPass3VulnVisitor::visit_map: the next root key, or the end of the root object
SpdxPass3VisitMap ==
    /\ pc = "p3_map"
    /\ IF sec < Len(doc)
       THEN /\ sec' = sec + 1
            /\ pos' = 0
            /\ IF doc[sec + 1].key = "@graph"
               THEN \* JsonLdVulnState { first_vuln: self.first_vuln }: the
                    \* visitor's flag is copied, and nothing writes it back
                    /\ firstVuln' = TRUE
                    /\ vulnerabilities' = <<>>
                    /\ vexRelationships' = <<>>
                    /\ written' = 0
                    /\ pc' = "p3_graph"
               ELSE UNCHANGED <<pc, pass3Vars>>
       ELSE /\ pc' = "p3_end"
            /\ UNCHANGED <<sec, pos, pass3Vars>>
    /\ UNCHANGED <<result, failedAt, out, index, pass2Vars, fixedVars, warnings, vexFile>>

\* type_name.starts_with("security_Vex"), on the type names of the model
StartsWithSecurityVex(typeName) ==
    typeName \in {"security_VexNotAffectedVulnAssessmentRelationship",
                  "security_VexFixedVulnAssessmentRelationship",
                  "security_VexAffectedVulnAssessmentRelationship",
                  "security_VexUnderInvestigationVulnAssessmentRelationship"}

\* serde_json::from_value::<JsonLdVulnerability> gives Ok: the fields that
\* are not an Option are there
DecodesVulnerability(value) == {"type", "spdxId"} \subseteq DOMAIN value

\* JsonLdGraphPass3Visitor::visit_seq, one turn of the loop that collects; an
\* entry that does not decode is passed over
JsonLdGraphPass3Collect ==
    /\ pc = "p3_graph"
    /\ IF pos < Len(doc[sec].recs)
       THEN /\ vulnerabilities' = IF /\ Current.type = "security_Vulnerability"
                                     /\ DecodesVulnerability(Current)
                                  THEN Append(vulnerabilities, Current)
                                  ELSE vulnerabilities
            /\ vexRelationships' = IF StartsWithSecurityVex(Current.type)
                                   THEN Append(vexRelationships, Current)
                                   ELSE vexRelationships
            /\ pos' = pos + 1
            /\ UNCHANGED pc
       ELSE /\ pc' = "p3_write"
            /\ UNCHANGED <<vulnerabilities, vexRelationships, pos>>
    /\ UNCHANGED <<result, failedAt, out, index, sec, pass2Vars, fixedVars, warnings, vexFile,
                   firstVuln, written>>

\* JsonLdGraphPass3Visitor::visit_seq, one turn of `for vuln in vulnerabilities`
JsonLdGraphPass3Write ==
    /\ pc = "p3_write"
    /\ IF written < Len(vulnerabilities)
       THEN LET records == WriteVulnerability(vulnerabilities[written + 1],
                                              vexRelationships, serialNumber, firstVuln)
            IN  /\ Pass3Write(records)
                /\ firstVuln' = (firstVuln /\ records = <<>>)
                /\ written' = written + 1
                /\ UNCHANGED pc
       ELSE /\ pc' = "p3_map"
            /\ UNCHANGED <<out, vex, firstVuln, written>>
    /\ UNCHANGED <<result, failedAt, index, readVars, pass2Vars, fixedVars, warnings, vexPath,
                   vexExists, vulnerabilities, vexRelationships>>

\* a failure while the Pass 3 visitor runs: the input does not decode, or
\* the write of a vulnerability fails
Pass3Error ==
    /\ pc \in {"p3_map", "p3_graph", "p3_write"}
    /\ \E kind \in {"pass3_decode", "pass3_write"} :
          /\ kind = "pass3_write" <=> pc = "p3_write"
          /\ Raise(kind)
    /\ UNCHANGED <<out, index, readVars, pass2Vars, fixedVars, warnings, vexFile, pass3Vars>>

\* pass_3_extract_vulnerabilities: close `vulnerabilities` and the root
\* object; convert_spdx_to_cdx and run() return Ok
Pass3End ==
    /\ pc = "p3_end"
    /\ \/ /\ Raise("pass3_write")
          /\ UNCHANGED <<out, vex>>
       \/ /\ Pass3Write(<<CloseArray("vulnerabilities"), EndObject>>)
          /\ pc' = "done"
          /\ result' = "ok"
          /\ UNCHANGED failedAt
    /\ UNCHANGED <<index, readVars, pass2Vars, fixedVars, warnings, vexPath, vexExists, pass3Vars>>

InitSpdx ==
    /\ pc = "run"
    /\ result = "running"
    /\ failedAt = ""
    /\ direction = "SpdxToCdx"
    /\ outExists = FALSE
    /\ out = <<>>
    /\ InitCdxIdle
    /\ doc \in Docs
    /\ splitVex \in BOOLEAN
    /\ packagesOnly \in BOOLEAN
    /\ inputPath \in InputPaths
    /\ outputPath \in OutputPaths
    /\ hashOf \in DefaultHashers
    /\ index = <<>>
    /\ sec = 0
    /\ pos = 0
    /\ serialNumber = <<>>
    /\ firstComponent = TRUE
    /\ visited = <<>>
    /\ firstDep = TRUE
    /\ vexPath = NoPath
    /\ vexExists = FALSE
    /\ vex = <<>>
    /\ vulnerabilities = <<>>
    /\ vexRelationships = <<>>
    /\ firstVuln = TRUE
    /\ written = 0
    /\ warnings = <<>>
    /\ InitUnitIdle
    /\ InitArgsIdle
    /\ InitProgress

NextSpdx ==
    \/ RunOpenFiles
    \/ Pass1BuildIndexBegin
    \/ SpdxPass1VisitMap
    \/ SpdxRelationshipStreamVisitSeq
    \/ JsonLdGraphStreamVisitSeq
    \/ Pass1Error
    \/ Pass2Begin
    \/ SpdxPass2VisitMap
    \/ SpdxElementStreamVisitSeq
    \/ JsonLdGraphPass2VisitSeq
    \/ Pass2Error
    \/ Pass2OpenDependencies
    \/ Pass2WriteDependency
    \/ Pass2End
    \/ Pass3Open
    \/ Pass3Begin
    \/ SpdxPass3VisitMap
    \/ JsonLdGraphPass3Collect
    \/ JsonLdGraphPass3Write
    \/ Pass3Error
    \/ Pass3End

SpecSpdx == InitSpdx /\ [][NextSpdx]_vars

-----------------------------------------------------------------------------
(* SPDX -> CycloneDX: inputs with vulnerabilities and their assessments,    *)
(* inputs with both `elements` and `@graph`, inputs with neither            *)

\* elements of the `@graph` array of an input of vulnerabilities
MaxVexGraph == 3

\* an id in which "/vulnerability/" stands twice
U_x == U_v \o S_VulnerabilityPath \o <<"x">>

Cve_2 == <<"C", "V", "E", "-", "2">>
SomeCve(id) == [some |-> TRUE, id |-> id]

\* JsonLdVulnerability: with and without an identifier of type "cve", with
\* and without "/vulnerability/" in the id; the last record has no spdxId
\* and does not decode
VexVulnerabilities ==
    {[type |-> "security_Vulnerability", spdxId |-> U_v, cve |-> NoCve],
     [type |-> "security_Vulnerability", spdxId |-> U_v, cve |-> SomeCve(Cve_2)],
     [type |-> "security_Vulnerability", spdxId |-> U_w, cve |-> NoCve],
     [type |-> "security_Vulnerability", spdxId |-> U_w, cve |-> SomeCve(Cve_2)],
     [type |-> "security_Vulnerability", spdxId |-> U_x, cve |-> NoCve],
     [type |-> "security_Vulnerability", cve |-> NoCve]}

\* JsonLdVexRelationship
VexAssessments ==
    JsonLdVexRelationships
        \cup {[type |-> "security_VexAffectedVulnAssessmentRelationship",
                from |-> U_w, to |-> <<U_b>>]}

VexGraphs ==
    {<<Section("@graph", x)>> :
        x \in SeqsOf(VexVulnerabilities \cup VexAssessments, MaxVexGraph)}

\* root objects with both `elements` and `@graph`, in either order
MixedDocs ==
    LET E == {Section("elements", x) : x \in SeqsOf(SpdxElements, 1)}
        G == {Section("@graph", x) :
                x \in SeqsOf(JsonLdElements
                                \cup {[type |-> "security_Vulnerability",
                                        spdxId |-> U_v, cve |-> NoCve]}, 1)}
    IN  {<<e, g>> : e \in E, g \in G} \cup {<<g, e>> : e \in E, g \in G}

\* root objects with neither `elements` nor `@graph`: empty, or with keys
\* the visitors pass over, with or without `relationships`
BareDocs ==
    LET R == {Section("relationships", x) : x \in SeqsOf(SpdxRelationships, 1)}
        V == Section("spdxVersion", <<>>)
    IN  {<<>>, <<V>>} \cup {<<r>> : r \in R} \cup {<<V, r>> : r \in R}

\* simple-JSON documents with an element of type SpdxVulnerability, with and
\* without an AFFECTS relationship from it
SimpleVulnDocs ==
    LET a == [spdxId |-> Id_a, type |-> "SpdxPackage"]
        v == [spdxId |-> Id_v, type |-> "SpdxVulnerability"]
        affectsA == [spdxElementId |-> Id_v, relationshipType |-> "AFFECTS",
                     relatedSpdxElement |-> Id_a]
    IN  {<<Section("elements", e), Section("relationships", r)>> :
            e \in {<<v>>, <<a, v>>}, r \in {<<>>, <<affectsA>>}}

VexDocs == VexGraphs \cup MixedDocs \cup BareDocs \cup SimpleVulnDocs

InitSpdxVex ==
    /\ pc = "run"
    /\ result = "running"
    /\ failedAt = ""
    /\ direction = "SpdxToCdx"
    /\ outExists = FALSE
    /\ out = <<>>
    /\ InitCdxIdle
    /\ doc \in VexDocs
    /\ splitVex \in BOOLEAN
    /\ packagesOnly = FALSE
    /\ inputPath \in InputPaths
    /\ inputPath.dir = "in"
    /\ outputPath \in OutputPaths
    /\ hashOf \in DefaultHashers
    /\ index = <<>>
    /\ sec = 0
    /\ pos = 0
    /\ serialNumber = <<>>
    /\ firstComponent = TRUE
    /\ visited = <<>>
    /\ firstDep = TRUE
    /\ vexPath = NoPath
    /\ vexExists = FALSE
    /\ vex = <<>>
    /\ vulnerabilities = <<>>
    /\ vexRelationships = <<>>
    /\ firstVuln = TRUE
    /\ written = 0
    /\ warnings = <<>>
    /\ InitUnitIdle
    /\ InitArgsIdle
    /\ InitProgress

SpecSpdxVex == InitSpdxVex /\ [][NextSpdx]_vars

-----------------------------------------------------------------------------
(* Component metadata: one component through SpdxPackage::from_cdx_component *)
(* and through the handlers of SPDX -> CycloneDX.  A JSON object is a        *)
(* function from the keys it has to their values; names of hash algorithms   *)
(* are sequences of ASCII characters.                                        *)

\* hashes of one component
MaxHashes == 2

LowerLetters ==
    <<"a", "b", "c", "d", "e", "f", "g", "h", "i", "j", "k", "l", "m",
      "n", "o", "p", "q", "r", "s", "t", "u", "v", "w", "x", "y", "z">>
UpperLetters ==
    <<"A", "B", "C", "D", "E", "F", "G", "H", "I", "J", "K", "L", "M",
      "N", "O", "P", "Q", "R", "S", "T", "U", "V", "W", "X", "Y", "Z">>

\* the character U+017F, LATIN SMALL LETTER LONG S: a lowercase letter whose
\* uppercase is 'S', while the lowercase of 'S' is 's'
LongS == "U+017F"

\* char::to_uppercase and char::to_lowercase, on ASCII and on U+017F
UpperChar(c) ==
    IF c = LongS THEN "S"
    ELSE IF \E i \in 1..26 : LowerLetters[i] = c
    THEN UpperLetters[CHOOSE i \in 1..26 : LowerLetters[i] = c]
    ELSE c
LowerChar(c) ==
    IF \E i \in 1..26 : UpperLetters[i] = c
    THEN LowerLetters[CHOOSE i \in 1..26 : UpperLetters[i] = c]
    ELSE c

\* str::to_uppercase and str::to_lowercase
ToUppercase(s) == [i \in 1..Len(s) |-> UpperChar(s[i])]
ToLowercase(s) == [i \in 1..Len(s) |-> LowerChar(s[i])]

A_sha256 == <<"s", "h", "a", "2", "5", "6">>
A_sha_256 == <<"s", "h", "a", "-", "2", "5", "6">>
A_sha1 == <<"s", "h", "a", "1">>
A_sha_1 == <<"s", "h", "a", "-", "1">>
A_SHA256 == <<"S", "H", "A", "2", "5", "6">>
A_SHA_256 == <<"S", "H", "A", "-", "2", "5", "6">>
A_SHA1 == <<"S", "H", "A", "1">>
A_SHA_1 == <<"S", "H", "A", "-", "1">>
A_MD5 == <<"M", "D", "5">>
A_SHA_512 == <<"S", "H", "A", "-", "5", "1", "2">>
A_BLAKE2b == <<"B", "L", "A", "K", "E", "2", "b">>

\* handle_spdx_element, the algorithm of one hash
HandleSpdxElementAlg(alg) ==
    IF ToLowercase(alg) \in {A_sha256, A_sha_256} THEN A_SHA_256
    ELSE IF ToLowercase(alg) \in {A_sha1, A_sha_1} THEN A_SHA_1
    ELSE ToUppercase(alg)

\* a reader that only turns the name to uppercase
ExtractHashesAlgUpper(alg) == ToUppercase(alg)

\* SpdxElementMinimal::extract_hashes and JsonLdElement::extract_hashes, the
\* algorithm of one hash
ExtractHashesAlg(alg) ==
    IF ToUppercase(alg) = A_SHA256 THEN A_SHA_256
    ELSE IF ToUppercase(alg) = A_SHA1 THEN A_SHA_1
    ELSE ToUppercase(alg)

\* handle_spdx_element, `hashes`: a hash without algorithm or without value
\* is left out, and an empty list becomes None
HandleSpdxElementHashes(verifiedUsing) ==
    IF ~verifiedUsing.some THEN None
    ELSE LET whole == SelectSeq(verifiedUsing.val,
                                LAMBDA h : h.algorithm.some /\ h.hashValue.some)
             hashes == [i \in 1..Len(whole) |->
                          [alg |-> HandleSpdxElementAlg(whole[i].algorithm.val),
                           content |-> whole[i].hashValue.val]]
         IN  IF hashes = <<>> THEN None ELSE Some(hashes)

\* SpdxElementMinimal::extract_hashes, JsonLdElement::extract_hashes: a hash
\* without algorithm or without value is left out, and an empty list becomes
\* None
ExtractHashes(verifiedUsing) ==
    IF ~verifiedUsing.some THEN None
    ELSE LET whole == SelectSeq(verifiedUsing.val,
                                LAMBDA h : h.algorithm.some /\ h.hashValue.some)
             hashes == [i \in 1..Len(whole) |->
                          [alg |-> ExtractHashesAlg(whole[i].algorithm.val),
                           content |-> whole[i].hashValue.val]]
         IN  IF hashes = <<>> THEN None ELSE Some(hashes)

\* the identifier of the first external identifier of type `idType`
ExternalIdentifierOf(externalIdentifier, idType) ==
    IF ~externalIdentifier.some THEN None
    ELSE LET found == SelectSeq(externalIdentifier.val,
                                LAMBDA id : id.externalIdentifierType = Some(idType))
         IN  IF found = <<>> THEN None ELSE found[1].identifier

\* a writer that also takes the hyphens out of the name
FromCdxComponentAlgNoHyphen(alg) == SelectSeq(ToLowercase(alg), LAMBDA c : c # "-")

\* SpdxPackage::from_cdx_component, the algorithm of one hash
FromCdxComponentAlg(alg) == ToLowercase(alg)

\* SpdxPackage::from_cdx_component
SpdxPackageFromCdxComponent(comp) ==
    [spdxId |-> S_SPDXRef \o comp.bomRef,
     type |-> IF comp.type = "file" THEN "SpdxFile" ELSE "SpdxPackage",
     name |-> comp.name,
     versionInfo |-> comp.version,
     summary |-> comp.description,
     purl |-> comp.purl,
     licenseConcluded |->
        IF comp.licenses.some /\ comp.licenses.val # <<>>
        THEN comp.licenses.val[1].expression
        ELSE None,
     externalIdentifier |->
        IF comp.cpe.some
        THEN Some(<<[type |-> "ExternalIdentifier",
                     externalIdentifierType |-> Some("cpe23Type"),
                     identifier |-> Some(comp.cpe.val)]>>)
        ELSE None,
     verifiedUsing |->
        IF comp.hashes.some
        THEN Some([i \in 1..Len(comp.hashes.val) |->
                      [type |-> "Hash",
                       algorithm |-> Some(FromCdxComponentAlg(comp.hashes.val[i].alg)),
                       hashValue |-> Some(comp.hashes.val[i].content)]])
        ELSE None,
     softwarePrimaryPurpose |->
        IF comp.scope.some
        THEN Some(CASE comp.scope.val = "required" -> "install"
                    [] comp.scope.val = "optional" -> "optional"
                    [] OTHER -> "other")
        ELSE None]

\* a JSON object of the keys of `fields` whose value is Some
JsonObject(fields) ==
    [k \in {key \in DOMAIN fields : fields[key].some} |-> fields[k].val]

\* the value of `key` in a JSON object, None when it has no such key
Get(json, key) == IF key \in DOMAIN json THEN Some(json[key]) ELSE None

\* serde_json::to_writer of an SpdxPackage: camelCase keys, an Option that is
\* None has no key
SerializeSpdxPackage(pkg) ==
    JsonObject([spdxId |-> Some(pkg.spdxId),
                type |-> Some(pkg.type),
                name |-> Some(pkg.name),
                versionInfo |-> pkg.versionInfo,
                summary |-> pkg.summary,
                purl |-> pkg.purl,
                licenseConcluded |-> pkg.licenseConcluded,
                externalIdentifier |-> pkg.externalIdentifier,
                verifiedUsing |-> pkg.verifiedUsing,
                softwarePrimaryPurpose |-> pkg.softwarePrimaryPurpose])

\* serde's Deserialize of SpdxElementMinimal
DeserializeSpdxElementMinimal(json) ==
    [spdxId |-> json.spdxId,
     type |-> json.type,
     name |-> Get(json, "name"),
     versionInfo |-> Get(json, "versionInfo"),
     summary |-> Get(json, "summary"),
     purl |-> Get(json, "purl"),
     licenseConcluded |-> Get(json, "licenseConcluded"),
     externalIdentifier |-> Get(json, "externalIdentifier"),
     verifiedUsing |-> Get(json, "verifiedUsing"),
     softwarePrimaryPurpose |-> Get(json, "softwarePrimaryPurpose")]

\* serde's Deserialize of JsonLdElement
DeserializeJsonLdElement(json) ==
    [type |-> json.type,
     spdxId |-> json.spdxId,
     name |-> Get(json, "name"),
     softwarePackageVersion |-> Get(json, "softwarePackageVersion"),
     description |-> Get(json, "description"),
     summary |-> Get(json, "summary"),
     softwarePrimaryPurpose |-> Get(json, "softwarePrimaryPurpose"),
     externalIdentifier |-> Get(json, "externalIdentifier"),
     verifiedUsing |-> Get(json, "verifiedUsing")]

\* handle_spdx_element, the CdxComponent it builds
HandleSpdxElementComponent(element) ==
    [bomRef |-> ExtractBomRef(element.spdxId),
     type |-> IF element.type \in {"SpdxPackage", "software_Package"}
              THEN "library" ELSE "file",
     name |-> IF element.name.some THEN element.name.val ELSE "Unknown",
     version |-> element.versionInfo,
     description |-> element.summary,
     cpe |-> ExternalIdentifierOf(element.externalIdentifier, "cpe23Type"),
     purl |-> element.purl,
     scope |-> IF element.softwarePrimaryPurpose.some
               THEN Some(CASE element.softwarePrimaryPurpose.val = "install" -> "required"
                           [] element.softwarePrimaryPurpose.val = "optional" -> "optional"
                           [] OTHER -> "required")
               ELSE None,
     hashes |-> HandleSpdxElementHashes(element.verifiedUsing),
     licenses |-> IF element.licenseConcluded.some
                  THEN Some(<<[expression |-> Some(element.licenseConcluded.val),
                               license |-> None]>>)
                  ELSE None]

\* handle_jsonld_element, the CdxComponent it builds
HandleJsonLdElementComponent(element) ==
    [bomRef |-> ExtractBomRef(element.spdxId),
     type |-> IF element.type = "software_Package" THEN "library" ELSE "file",
     name |-> IF element.name.some THEN element.name.val ELSE "Unknown",
     version |-> element.softwarePackageVersion,
     description |-> IF element.description.some THEN element.description
                     ELSE element.summary,
     cpe |-> ExternalIdentifierOf(element.externalIdentifier, "cpe23"),
     purl |-> ExternalIdentifierOf(element.externalIdentifier, "purl"),
     scope |-> IF ~element.softwarePrimaryPurpose.some THEN None
               ELSE IF element.softwarePrimaryPurpose.val = "install"
               THEN Some("required")
               ELSE IF element.softwarePrimaryPurpose.val \in {"source", "build"}
               THEN Some("excluded")
               ELSE None,
     hashes |-> ExtractHashes(element.verifiedUsing),
     licenses |-> None]

\* serde_json::to_writer of a CdxComponent: the key `bom-ref`, an Option that
\* is None has no key
SerializeCdxComponent(comp) ==
    LET rest == JsonObject([type |-> Some(comp.type),
                            name |-> Some(comp.name),
                            version |-> comp.version,
                            description |-> comp.description,
                            cpe |-> comp.cpe,
                            purl |-> comp.purl,
                            scope |-> comp.scope,
                            hashes |-> comp.hashes,
                            licenses |-> comp.licenses])
    IN  [k \in DOMAIN rest \cup {"bom-ref"} |->
            IF k = "bom-ref" THEN comp.bomRef ELSE rest[k]]

\* serde's Deserialize of CdxComponent
DeserializeCdxComponent(json) ==
    [bomRef |-> json["bom-ref"],
     type |-> json.type,
     name |-> json.name,
     version |-> Get(json, "version"),
     description |-> Get(json, "description"),
     cpe |-> Get(json, "cpe"),
     purl |-> Get(json, "purl"),
     scope |-> Get(json, "scope"),
     hashes |-> Get(json, "hashes"),
     licenses |-> Get(json, "licenses")]

\* names of hash algorithms in a CycloneDX document
CdxAlgs == {A_SHA_256, A_SHA_1, A_MD5, A_SHA_512, A_BLAKE2b}

\* CdxLicenseChoice
L_expression == [expression |-> Some("MIT"), license |-> None]
L_license == [expression |-> None, license |-> Some("l")]

\* components of a CycloneDX document: the bom-ref plain, with a '/', or a URI
CdxUnitComponents ==
    {SerializeCdxComponent(c) :
        c \in [bomRef : {<<"a">>, <<"x", "/", "y">>, U_a},
               type : ComponentTypes,
               name : {"n"},
               version : {None, Some("1")},
               description : {None, Some("d")},
               cpe : {None, Some("c")},
               purl : {None, Some("p")},
               scope : {None, Some("required"), Some("optional"), Some("excluded")},
               hashes : {None}
                          \cup {Some(h) :
                                  h \in SeqsOf([alg : CdxAlgs, content : {"ab"}], MaxHashes)},
               licenses : {None, Some(<<>>), Some(<<L_expression>>),
                           Some(<<L_license, L_expression>>)}]}

\* the spellings of `name` with every letter in either case
RECURSIVE Spellings(_)
Spellings(name) ==
    IF name = <<>> THEN {<<>>}
    ELSE {<<c>> \o rest : c \in {LowerChar(Head(name)), UpperChar(Head(name))},
                          rest \in Spellings(Tail(name))}

\* names of hash algorithms in an SPDX document
SpdxAlgs ==
    UNION {Spellings(name) :
             name \in {A_sha256, A_sha_256, A_sha1, A_sha_1, A_MD5, A_SHA_512, A_BLAKE2b,
                       <<"s", "h", "a", "2">>, <<"s", "h", "a", "-", "-", "1">>,
                       <<"s", "h", "a", "2", "5", "6", "-">>,
                       <<LongS, "h", "a", "2", "5", "6">>, <<LongS, "h", "a", "1">>}}

\* elements of an SPDX document with one hash
SpdxUnitElements ==
    {JsonObject([spdxId |-> Some(IF t = "SpdxPackage" THEN Id_a ELSE U_a),
                 type |-> Some(t),
                 name |-> Some("n"),
                 verifiedUsing |-> Some(<<h>>)]) :
        t \in {"SpdxPackage", "software_Package"},
        h \in [type : {"Hash"},
               algorithm : {None} \cup {Some(a) : a \in SpdxAlgs},
               hashValue : {None, Some("ab")}]}

\* elements of an SPDX document with a purl as a top-level field, as an
\* external identifier, as both or as neither
SpdxPurlElements ==
    {JsonObject([spdxId |-> Some(IF t = "SpdxPackage" THEN Id_a ELSE U_a),
                 type |-> Some(t),
                 name |-> Some("n"),
                 purl |-> p,
                 externalIdentifier |-> e]) :
        t \in {"SpdxPackage", "software_Package"},
        p \in {None, Some("pkg:a")},
        e \in {None} \cup
              {Some(<<[type |-> "ExternalIdentifier",
                       externalIdentifierType |-> Some(idType),
                       identifier |-> Some("pkg:b")]>>) : idType \in {"purl", "cpe23"}}}

\* elements of an SPDX document with ids of every form: with and without the
\* prefix `SPDXRef-`, with the prefix twice, and URIs whose last segment has
\* a letter or has none
SpdxIdElements ==
    {JsonObject([spdxId |-> Some(id),
                 type |-> Some(t),
                 name |-> Some("n")]) :
        t \in {"SpdxPackage", "software_Package", "software_File"},
        id \in {Id_a, <<"a">>, S_SPDXRef \o Id_a, U_a, U_b, U_w}}

\* what the conversion of one component leaves alone
pipelineVars ==
    <<result, failedAt, direction, outExists, out, cdxVars, cfgVars, index, readVars,
      pass2Vars, vexFile, pass3Vars, warnings, progressVars>>

\* handle_cdx_component: the component read from `components`, the element
\* written to `elements`
HandleCdxComponentWhole ==
    /\ pc = "unit_cdx"
    /\ spdxElement' = Some(SerializeSpdxPackage(
                              SpdxPackageFromCdxComponent(
                                 DeserializeCdxComponent(cdxComponent.val))))
    /\ pc' = "unit_spdx"
    /\ UNCHANGED <<cdxComponent, cdxResult, pipelineVars>>

\* SpdxElementStreamVisitor::visit_seq and handle_spdx_element: an element
\* read from `elements`, the component written to `components`
HandleSpdxElementWhole ==
    /\ pc = "unit_spdx"
    /\ spdxElement.val.type \in {"SpdxPackage", "software_Package", "SpdxFile", "software_File"}
    /\ cdxResult' = Some(SerializeCdxComponent(
                            HandleSpdxElementComponent(
                               DeserializeSpdxElementMinimal(spdxElement.val))))
    /\ pc' = "unit_simple"
    /\ UNCHANGED <<cdxComponent, spdxElement, pipelineVars>>

\* JsonLdGraphPass2Visitor::visit_seq and handle_jsonld_element: an entry
\* read from `@graph`, the component written to `components`
HandleJsonLdElementWhole ==
    /\ pc = "unit_spdx"
    /\ spdxElement.val.type \in {"software_Package", "software_File"}
    /\ cdxResult' = Some(SerializeCdxComponent(
                            HandleJsonLdElementComponent(
                               DeserializeJsonLdElement(spdxElement.val))))
    /\ pc' = "unit_jsonld"
    /\ UNCHANGED <<cdxComponent, spdxElement, pipelineVars>>

InitUnit ==
    /\ result = "running"
    /\ failedAt = ""
    /\ outExists = FALSE
    /\ out = <<>>
    /\ InitCdxIdle
    /\ doc = <<>>
    /\ splitVex = FALSE
    /\ packagesOnly = FALSE
    /\ inputPath = NoPath
    /\ outputPath = NoPath
    /\ hashOf \in DefaultHashers
    /\ index = <<>>
    /\ sec = 0
    /\ pos = 0
    /\ serialNumber = <<>>
    /\ firstComponent = TRUE
    /\ visited = <<>>
    /\ firstDep = TRUE
    /\ vexPath = NoPath
    /\ vexExists = FALSE
    /\ vex = <<>>
    /\ vulnerabilities = <<>>
    /\ vexRelationships = <<>>
    /\ firstVuln = TRUE
    /\ written = 0
    /\ warnings = <<>>
    /\ cdxResult = None
    /\ InitArgsIdle
    /\ InitProgress
    /\ \/ /\ pc = "unit_cdx"
          /\ direction = "CdxToSpdx"
          /\ cdxComponent \in {Some(c) : c \in CdxUnitComponents}
          /\ spdxElement = None
       \/ /\ pc = "unit_spdx"
          /\ direction = "SpdxToCdx"
          /\ cdxComponent = None
          /\ spdxElement \in {Some(e) : e \in SpdxUnitElements \cup SpdxPurlElements \cup SpdxIdElements}

NextUnit ==
    \/ HandleCdxComponentWhole
    \/ HandleSpdxElementWhole
    \/ HandleJsonLdElementWhole

SpecUnit == InitUnit /\ [][NextUnit]_vars

-----------------------------------------------------------------------------
(* The command line and run(), before any file is opened *)

\* CdxVersion::from_str, and clap's parse of CliCdxVersion with From
CdxVersionFromStr(s) ==
    CASE s = "1.3" -> Some("V1_3")
      [] s = "1.4" -> Some("V1_4")
      [] s = "1.5" -> Some("V1_5")
      [] s = "1.6" -> Some("V1_6")
      [] s = "1.7" -> Some("V1_7")
      [] OTHER -> None

\* values of --output-version
VersionArgs ==
    {None} \cup {Some(s) : s \in {"1.3", "1.4", "1.5", "1.6", "1.7", "1.2", "1.6.0", "2.0"}}

\* what is in the output file before the run, when there is one
StaleOutput == <<[t |-> "stale"]>>

\* SPDX documents of the runs that start at the command line
RunDocs ==
    LET elements == Section("elements",
                            <<[spdxId |-> Id_a, type |-> "SpdxPackage"],
                              [spdxId |-> Id_v, type |-> "SpdxVulnerability"],
                              [spdxId |-> Id_b, type |-> "SpdxFile"]>>)
        relationships == Section("relationships",
                                 <<[spdxElementId |-> Id_a,
                                    relationshipType |-> "DEPENDS_ON",
                                    relatedSpdxElement |-> Id_b]>>)
        package == [type |-> "software_Package", spdxId |-> U_a]
        file == [type |-> "software_File", spdxId |-> U_b]
        dependsOn == [type |-> "Relationship", from |-> U_a,
                      relationshipType |-> "dependsOn", to |-> <<U_b>>]
        vulnerability == [type |-> "security_Vulnerability", spdxId |-> U_v, cve |-> NoCve]
        second == [type |-> "security_Vulnerability", spdxId |-> U_w,
                   cve |-> SomeCve(Cve_2)]
    IN  {<<elements, relationships>>,
         <<relationships, elements>>,
         <<Section("@graph", <<package, dependsOn, file, vulnerability>>)>>,
         <<Section("@graph", <<vulnerability, file, dependsOn, package>>)>>,
         \* the root key `@graph` twice
         <<Section("@graph", <<package, vulnerability>>),
           Section("@graph", <<file, second>>)>>}

\* main: the command line is parsed and the Config is made
MainParseArgs ==
    /\ pc = "main"
    /\ IF ~versionArg.some
       THEN /\ outputVersion' = CdxVersionDefault
            /\ pc' = "preflight"
            /\ UNCHANGED <<result, failedAt>>
       ELSE IF CdxVersionFromStr(versionArg.val).some
       THEN /\ outputVersion' = CdxVersionFromStr(versionArg.val).val
            /\ pc' = "preflight"
            /\ UNCHANGED <<result, failedAt>>
       ELSE /\ Raise("args")
            /\ UNCHANGED outputVersion
    /\ UNCHANGED <<direction, outExists, out, cdxVars, doc, splitVex, packagesOnly,
                   inputPath, outputPath, hashOf, versionArg, inputFormat, outputFormat,
                   validate, schemaValid, index, readVars, pass2Vars, vexFile,
                   pass3Vars, warnings, unitVars, progressVars, trackerVars>>

\* a run() that goes on to open the files whatever the formats and the
\* validation
RunPreflightNoCheck ==
    /\ pc = "preflight"
    /\ pc' = "run"
    /\ UNCHANGED <<result, failedAt, direction, outExists, out, cdxVars, spdxVars>>

\* run(), up to "1. Validation": the format pairs that are not supported and
\* the validation of the input against the schema
RunPreflight ==
    /\ pc = "preflight"
    /\ IF inputFormat = "Xml" /\ direction = "SpdxToCdx"
       THEN Raise("unsupported_input")
       ELSE IF outputFormat = "Xml" /\ direction = "CdxToSpdx"
       THEN Raise("unsupported_output")
       ELSE IF validate /\ ~schemaValid
       THEN Raise("validation")
       ELSE /\ pc' = "run"
            /\ UNCHANGED <<result, failedAt>>
    /\ UNCHANGED <<direction, outExists, out, cdxVars, spdxVars>>

\* a run from the command line; of the runs with XML only those of SPDX-XML
InitRun ==
    /\ pc = "main"
    /\ result = "running"
    /\ failedAt = ""
    /\ direction \in {"CdxToSpdx", "SpdxToCdx"}
    /\ outExists \in BOOLEAN
    /\ out = IF outExists THEN StaleOutput ELSE <<>>
    /\ InitCdxIdle
    /\ versionArg \in VersionArgs
    /\ outputVersion = CdxVersionDefault
    /\ inputFormat \in {"Json", "Xml"}
    /\ outputFormat \in {"Json", "Xml"}
    /\ inputFormat = "Xml" => direction = "SpdxToCdx"
    /\ outputFormat = "Xml" => direction = "CdxToSpdx"
    /\ validate \in BOOLEAN
    /\ schemaValid \in BOOLEAN
    /\ IF direction = "SpdxToCdx"
       THEN /\ doc \in RunDocs
            /\ splitVex \in BOOLEAN
            /\ inputPath = [dir |-> "in", name |-> <<"sbom", "spdx", "json">>]
            /\ outputPath \in OutputPaths
            /\ hashOf \in DefaultHashers
       ELSE /\ doc = <<>>
            /\ splitVex = FALSE
            /\ inputPath = NoPath
            /\ outputPath = NoPath
            /\ hashOf = <<>>
    /\ packagesOnly = FALSE
    /\ index = <<>>
    /\ sec = 0
    /\ pos = 0
    /\ serialNumber = <<>>
    /\ firstComponent = TRUE
    /\ visited = <<>>
    /\ firstDep = TRUE
    /\ vexPath = NoPath
    /\ vexExists = FALSE
    /\ vex = <<>>
    /\ vulnerabilities = <<>>
    /\ vexRelationships = <<>>
    /\ firstVuln = TRUE
    /\ written = 0
    /\ warnings = <<>>
    /\ InitUnitIdle
    /\ InitProgress

NextRun ==
    \/ MainParseArgs
    \/ RunPreflight
    \/ NextCdx
    \/ NextSpdx

SpecRun == InitRun /\ [][NextRun]_vars

-----------------------------------------------------------------------------
(* ProgressTracker, with several threads in increment_element *)

\* calls of increment_element each thread makes
CallsPerThread == 3

\* report_interval of the tracker
ReportInterval == 2

\* width of usize in the model
UsizeBits == 16

\* `a - b` on usize where the overflow checks are off
WrappingSub(a, b) == (a - b) % (2 ^ UsizeBits)

\* what increment_element leaves alone
trackerFixed ==
    <<result, failedAt, direction, outExists, out, cdxVars, doc, splitVex, packagesOnly,
      inputPath, outputPath, hashOf, argVars, index, readVars, pass2Vars, vexFile,
      pass3Vars, warnings, unitVars, relationshipsProcessed>>

\* increment_element: `let count = self.elements_processed.fetch_add(1) + 1`
IncrementElementFetchAdd(t) ==
    /\ pc = "tracker"
    /\ tpc[t] = "idle"
    /\ calls[t] < CallsPerThread
    /\ elementsProcessed' = elementsProcessed + 1
    /\ count' = [count EXCEPT ![t] = elementsProcessed + 1]
    /\ calls' = [calls EXCEPT ![t] = @ + 1]
    /\ tpc' = [tpc EXCEPT ![t] = "load"]
    /\ UNCHANGED <<pc, trackerFixed, lastReportCount, lastLoaded>>

\* increment_element: `let last = self.last_report_count.load()`
IncrementElementLoad(t) ==
    /\ pc = "tracker"
    /\ tpc[t] = "load"
    /\ lastLoaded' = [lastLoaded EXCEPT ![t] = lastReportCount]
    /\ tpc' = [tpc EXCEPT ![t] = "compare"]
    /\ UNCHANGED <<pc, trackerFixed, elementsProcessed, lastReportCount, count, calls>>

\* increment_element: `if count - last >= self.report_interval`; with the
\* overflow checks on, a subtraction that underflows panics, and with them
\* off it wraps
IncrementElementCompare(t) ==
    /\ pc = "tracker"
    /\ tpc[t] = "compare"
    /\ \/ /\ lastLoaded[t] > count[t]
          /\ tpc' = [tpc EXCEPT ![t] = "panicked"]
       \/ /\ tpc' = [tpc EXCEPT ![t] =
                        IF WrappingSub(count[t], lastLoaded[t]) >= ReportInterval
                        THEN "store"
                        ELSE "idle"]
    /\ UNCHANGED <<pc, trackerFixed, elementsProcessed, lastReportCount, count,
                   lastLoaded, calls>>

\* increment_element: `self.last_report_count.store(count)`, and the log line
IncrementElementStore(t) ==
    /\ pc = "tracker"
    /\ tpc[t] = "store"
    /\ lastReportCount' = count[t]
    /\ tpc' = [tpc EXCEPT ![t] = "idle"]
    /\ UNCHANGED <<pc, trackerFixed, elementsProcessed, count, lastLoaded, calls>>

\* a tracker made by ProgressTracker::new and cloned to the threads, no
\* conversion running
InitTracker ==
    /\ pc = "tracker"
    /\ result = "running"
    /\ failedAt = ""
    /\ direction = "CdxToSpdx"
    /\ outExists = FALSE
    /\ out = <<>>
    /\ InitCdxIdle
    /\ InitSpdxIdle
    /\ InitUnitIdle
    /\ InitArgsIdle
    /\ InitProgress

NextTracker ==
    \E t \in Threads :
        \/ IncrementElementFetchAdd(t)
        \/ IncrementElementLoad(t)
        \/ IncrementElementCompare(t)
        \/ IncrementElementStore(t)

SpecTracker == InitTracker /\ [][NextTracker]_vars

-----------------------------------------------------------------------------
(* Properties of CycloneDX -> SPDX *)

Elements(o) == SelectSeq(o, LAMBDA r : r.t = "element")
Relationships(o) == SelectSeq(o, LAMBDA r : r.t = "relationship")
Positions(o, rec) == {i \in 1..Len(o) : o[i] = rec}

\* the records of the input read under `key`
RecordsOf(key) ==
    IF \E i \in 1..Len(cdxInput) : cdxInput[i].key = key
    THEN cdxInput[CHOOSE i \in 1..Len(cdxInput) : cdxInput[i].key = key].recs
    ELSE <<>>
KeyPosition(key) == CHOOSE i \in 1..Len(cdxInput) : cdxInput[i].key = key
Converted == pc = "done" /\ result = "ok"

\* C1: whatever the order of the root keys, a relationship record stands in
\* the main output only after `elements` has been closed and `relationships`
\* opened, and it is a line that was appended to the side file before
C1_RelationshipsAfterElements ==
    /\ \A i \in 1..Len(out) :
          out[i].t = "relationship" =>
             /\ \E j \in 1..(i - 1) :
                   /\ out[j] = CloseArray("elements")
                   /\ \E k \in (j + 1)..(i - 1) : out[k] = OpenArray("relationships")
             /\ \A j \in 1..(i - 1) : out[j] # CloseArray("relationships")
    /\ Len(Relationships(out)) <= Len(side)
    /\ Relationships(out) = SubSeq(side, 1, Len(Relationships(out)))
    /\ pc \in {"visit_map", "components", "dependencies", "vulnerabilities"}
          => Positions(out, CloseArray("elements")) = {}

\* a conversion of an input whose `dependencies` come before its `components`
\* has written relationships and elements
C1_Witness ==
    /\ Converted
    /\ cdxInput # <<>>
    /\ cdxInput[1].key = "dependencies"
    /\ RecordsOf("components") # <<>>
    /\ Relationships(out) # <<>>

\* what the dependencies and the vulnerabilities of the input give, in order
RECURSIVE ExpectedDependsOn(_)
ExpectedDependsOn(deps) ==
    IF deps = <<>> THEN <<>>
    ELSE [i \in 1..Len(Head(deps).dependsOn) |->
             [t |-> "relationship",
              from |-> S_SPDXRef \o Head(deps).ref,
              type |-> "DEPENDS_ON",
              to |-> S_SPDXRef \o Head(deps).dependsOn[i]]]
         \o ExpectedDependsOn(Tail(deps))

RECURSIVE ExpectedAffects(_)
ExpectedAffects(vulns) ==
    IF vulns = <<>> THEN <<>>
    ELSE [i \in 1..Len(Head(vulns).affects.refs) |->
             [t |-> "relationship",
              from |-> S_SPDXRef \o S_Vulnerability \o Head(vulns).id,
              type |-> "AFFECTS",
              to |-> S_SPDXRef \o Head(vulns).affects.refs[i]]]
         \o ExpectedAffects(Tail(vulns))

\* C2: within each source key the conversion is an order-preserving map that
\* drops and merges nothing: one element SPDXRef-<bom-ref> per component, one
\* element SPDXRef-Vulnerability-<id> and one AFFECTS line per affects entry
\* per vulnerability, one DEPENDS_ON line per dependsOn entry, and the
\* `relationships` array of a finished conversion is the side file as appended
C2_OrderPreservingMap ==
    LET comps == RecordsOf("components")
        vulns == RecordsOf("vulnerabilities")
        fromComps == SelectSeq(Elements(out), LAMBDA e : e.type # "SpdxVulnerability")
        fromVulns == SelectSeq(Elements(out), LAMBDA e : e.type = "SpdxVulnerability")
    IN  /\ Len(fromComps) = Len(comps)
        /\ \A i \in 1..Len(comps) : fromComps[i].spdxId = S_SPDXRef \o comps[i].bomRef
        /\ Len(fromVulns) = Len(vulns)
        /\ \A i \in 1..Len(vulns) :
              fromVulns[i].spdxId = S_SPDXRef \o S_Vulnerability \o vulns[i].id
        /\ SelectSeq(side, LAMBDA r : r.type = "DEPENDS_ON")
              = ExpectedDependsOn(RecordsOf("dependencies"))
        /\ SelectSeq(side, LAMBDA r : r.type = "AFFECTS") = ExpectedAffects(vulns)
        /\ Converted => Relationships(out) = side

\* a finished conversion of a dependency with two targets
C2_Witness ==
    /\ Converted
    /\ \E i \in 1..Len(RecordsOf("dependencies")) :
          /\ Len(RecordsOf("dependencies")[i].dependsOn) = 2
          /\ RecordsOf("dependencies")[i].dependsOn[1] # RecordsOf("dependencies")[i].dependsOn[2]
    /\ Len(Relationships(out)) = 2

ElementKey(e) == IF e.type = "SpdxVulnerability" THEN "vulnerabilities" ELSE "components"

C6_PartialOutputRemoved ==
    (pc = "done" /\ result = "err" /\ failedAt = "decode") => ~outExists

\* C7: when run() has returned, the side file is no longer on disk
C7_SideFileUnlinked ==
    pc = "done" => ~sideExists

-----------------------------------------------------------------------------
(* Properties of SPDX -> CycloneDX *)

Components(o) == SelectSeq(o, LAMBDA r : r.t = "component")
Dependencies(o) == SelectSeq(o, LAMBDA r : r.t = "dependency")
Vulnerabilities(o) == SelectSeq(o, LAMBDA r : r.t = "vulnerability")

\* the file Pass 3 writes to
Pass3Output == IF splitVex THEN vex ELSE out

\* the dependency entries the index gives for `keys`, taken in that order
RECURSIVE ExpectedDependencies(_)
ExpectedDependencies(keys) ==
    IF keys = <<>> THEN <<>>
    ELSE LET kept == SelectSeq(index[Head(keys)],
                               LAMBDA r : r.relationshipType
                                            \in {"DEPENDS_ON", "dependsOn", "contains"})
             entry == [t |-> "dependency",
                       ref |-> ExtractBomRef(Head(keys)),
                       dependsOn |-> [i \in 1..Len(kept) |->
                                         ExtractBomRef(kept[i].relatedSpdxElement)]]
         IN  (IF kept = <<>> THEN <<>> ELSE <<entry>>) \o ExpectedDependencies(Tail(keys))

\* C4: the dependencies loop takes every index key at most once; the entries
\* written are, for the keys taken and in the order taken, one {ref, dependsOn}
\* per key that has a relationship of type DEPENDS_ON, dependsOn or contains,
\* with dependsOn the targets of exactly those relationships in index order,
\* each mapped through extract_bom_ref; no entry has an empty dependsOn
C4_DependenciesFromIndex ==
    /\ \A i, j \in 1..Len(visited) : i # j => visited[i] # visited[j]
    /\ Range(visited) \subseteq DOMAIN index
    /\ Dependencies(out) = ExpectedDependencies(visited)
    /\ \A i \in 1..Len(Dependencies(out)) : Dependencies(out)[i].dependsOn # <<>>
    /\ Len(Dependencies(out)) <= Len(visited)

\* a finished conversion of an index with two keys: one has two dependsOn
\* targets, the other only a relationship of another type and so no entry
C4_Witness ==
    /\ Converted
    /\ Len(visited) = 2
    /\ Len(Dependencies(out)) = 1
    /\ Len(Dependencies(out)[1].dependsOn) = 2
    /\ Dependencies(out)[1].dependsOn[1] # Dependencies(out)[1].dependsOn[2]

\* the elements of the input that Pass 2 writes as components, in input order
RECURSIVE EmittedElements(_)
EmittedElements(sections) ==
    IF sections = <<>> THEN <<>>
    ELSE LET s == Head(sections)
             mine == IF s.key = "elements"
                     THEN SelectSeq(s.recs, LAMBDA e : e.type \in {"SpdxPackage", "SpdxFile"})
                     ELSE IF s.key = "@graph"
                     THEN SelectSeq(s.recs,
                                    LAMBDA e : \/ e.type = "software_Package"
                                               \/ e.type = "software_File" /\ ~packagesOnly)
                     ELSE <<>>
         IN  mine \o EmittedElements(Tail(sections))

\* the VEX relationships of the input whose vulnerability Pass 3 writes
EmittedVex ==
    {v \in UNION {Range(doc[i].recs) : i \in {j \in 1..Len(doc) : doc[j].key = "@graph"}} :
        /\ v.type \in {"security_VexNotAffectedVulnAssessmentRelationship",
                       "security_VexFixedVulnAssessmentRelationship",
                       "security_VexAffectedVulnAssessmentRelationship"}
        /\ \E w \in UNION {Range(doc[i].recs) : i \in 1..Len(doc)} :
              /\ w.type = "security_Vulnerability"
              /\ w.spdxId = v.from
              /\ Find(w.spdxId, S_VulnerabilityPath) # 0}

\* the component written for the i-th emitted element
ComponentOf(i) == Components(out)[i]

\* C5, the part about components and dependencies: the i-th component has the
\* bom-ref extract_bom_ref gives for the i-th emitted element, and after a
\* conversion a dependency on an emitted element names that component's bom-ref
C5_ComponentsAndDependencies ==
    /\ Len(Components(out)) <= Len(EmittedElements(doc))
    /\ \A i \in 1..Len(Components(out)) :
          ComponentOf(i).bomRef = ExtractBomRef(EmittedElements(doc)[i].spdxId)
    /\ Converted =>
          /\ Len(Components(out)) = Len(EmittedElements(doc))
          /\ \A i \in 1..Len(Components(out)) :
                \A k \in DOMAIN index :
                    \A n \in 1..Len(index[k]) :
                        (/\ index[k][n].relationshipType
                                \in {"DEPENDS_ON", "dependsOn", "contains"}
                         /\ index[k][n].relatedSpdxElement = EmittedElements(doc)[i].spdxId)
                        => \E d \in Range(Dependencies(out)) :
                              /\ d.ref = ExtractBomRef(k)
                              /\ ComponentOf(i).bomRef \in Range(d.dependsOn)
                              /\ k = EmittedElements(doc)[i].spdxId
                                    => d.ref = ComponentOf(i).bomRef

\* C5 as the specification words it for `affects`: after a conversion, an
\* affects entry for an emitted element is that component's bom-ref
C5_AffectsEqualsBomRef ==
    Converted =>
        \A i \in 1..Len(Components(out)) :
            \A v \in EmittedVex :
                EmittedElements(doc)[i].spdxId \in Range(v.to)
                => \E w \in Range(Vulnerabilities(Pass3Output)) :
                      ComponentOf(i).bomRef \in Range(w.affects)

\* C5, amended: components and dependencies as above; an affects entry for an
\* emitted element is the serial number, "#", and that component's bom-ref
C5_SameMapping ==
    /\ C5_ComponentsAndDependencies
    /\ \A w \in Range(Vulnerabilities(Pass3Output)) :
          \A n \in 1..Len(w.affects) :
              \E target \in HashedIds :
                  w.affects[n] = serialNumber \o <<"#">> \o ExtractBomRef(target)
    /\ Converted =>
          \A i \in 1..Len(Components(out)) :
              \A v \in EmittedVex :
                  EmittedElements(doc)[i].spdxId \in Range(v.to)
                  => \E w \in Range(Vulnerabilities(Pass3Output)) :
                        (serialNumber \o <<"#">> \o ComponentOf(i).bomRef)
                            \in Range(w.affects)

\* a finished JSON-LD conversion with a component and a vulnerability whose
\* VEX relationship names the element the component was made from
C5_Witness ==
    /\ Converted
    /\ \E i \in 1..Len(Components(out)) :
          /\ StartsWith(EmittedElements(doc)[i].spdxId, S_Https)
          /\ \E v \in EmittedVex : EmittedElements(doc)[i].spdxId \in Range(v.to)
    /\ \E w \in Range(Vulnerabilities(Pass3Output)) : w.affects # <<>>

\* a CycloneDX document that is complete: header, closed `components`, closed
\* `dependencies`, and the closing brace of the root object at its end
ClosedCdxDocument(o) ==
    /\ o # <<>>
    /\ o[1].t = "header"
    /\ \E i, j \in 1..Len(o) :
          /\ i < j
          /\ o[i] = CloseArray("components")
          /\ o[j] = CloseArray("dependencies")
    /\ o[Len(o)] = EndObject

\* C8: with split_vex, a conversion that failed after Pass 2 had returned (on
\* re-opening the input, on creating the VEX file, or in Pass 3) has left a
\* complete main document
C8_MainClosedAfterPass2 ==
    (/\ splitVex
     /\ pc = "done"
     /\ result = "err"
     /\ failedAt \in {"pass3_reopen", "vex_create", "pass3_decode", "pass3_write"})
    => ClosedCdxDocument(out)

\* the vulnerabilities of the input from which a CVE id can be taken
ExtractableVulnerabilities ==
    {<<i, n>> \in (1..Len(doc)) \X (1..MaxGraph) :
        /\ doc[i].key = "@graph"
        /\ n <= Len(doc[i].recs)
        /\ doc[i].recs[n].type = "security_Vulnerability"
        /\ \/ doc[i].recs[n].cve.some
           \/ Find(doc[i].recs[n].spdxId, S_VulnerabilityPath) # 0}

\* C9: with split_vex the main document never holds a vulnerability or a
\* `vulnerabilities` key; after a conversion it ends with the close of
\* `dependencies` and the closing brace, with no comma between, the VEX
\* document starts with a header that has the serial number of the main
\* document's header, and the VEX document holds every vulnerability written
C9_SplitVex ==
    splitVex =>
        /\ Vulnerabilities(out) = <<>>
        /\ Positions(out, OpenArray("vulnerabilities")) = {}
        /\ Converted =>
              /\ Len(out) >= 2
              /\ out[Len(out) - 1] = CloseArray("dependencies")
              /\ out[Len(out)] = EndObject
              /\ out[1].t = "header"
              /\ vexExists
              /\ vex # <<>>
              /\ vex[1].t = "header"
              /\ vex[1].serialNumber = out[1].serialNumber
              /\ vex[Len(vex)] = EndObject
              /\ Len(Vulnerabilities(vex)) = Cardinality(ExtractableVulnerabilities)

\* a finished split conversion that has written a vulnerability
C9_Witness ==
    /\ Converted
    /\ splitVex
    /\ Vulnerabilities(vex) # <<>>
    /\ Dependencies(out) # <<>>

\* the names a sibling `<output>.vex.json` of the main output may have
OutputVexPaths ==
    {[dir |-> outputPath.dir, name |-> outputPath.name \o <<"vex", "json">>],
     [dir |-> outputPath.dir, name |-> <<outputPath.name[1], "vex", "json">>],
     [dir |-> outputPath.dir,
      name |-> SubSeq(outputPath.name, 1, Len(outputPath.name) - 1) \o <<"vex", "json">>]}

\* C10: the VEX file is created next to the main output, under a name made
\* from the name of the main output
C10_VexPathFromOutput ==
    vexExists => vexPath \in OutputVexPaths

-----------------------------------------------------------------------------
(* Properties of SPDX -> CycloneDX, Pass 3 *)

\* the entries of the `@graph` array of the input
Graph ==
    Flatten([i \in 1..Len(doc) |-> IF doc[i].key = "@graph" THEN doc[i].recs ELSE <<>>])

\* the vulnerabilities of the graph that decode and have a CVE id to take,
\* in input order
GraphVulnerabilities ==
    SelectSeq(Graph,
              LAMBDA e : /\ e.type = "security_Vulnerability"
                         /\ "spdxId" \in DOMAIN e
                         /\ \/ e.cve.some
                            \/ Find(e.spdxId, S_VulnerabilityPath) # 0)

\* the VEX relationships of the graph whose `from` is `spdxId`, in input order
MatchingVex(spdxId) ==
    SelectSeq(Graph,
              LAMBDA e : /\ e.type \in {"security_VexNotAffectedVulnAssessmentRelationship",
                                        "security_VexFixedVulnAssessmentRelationship",
                                        "security_VexAffectedVulnAssessmentRelationship"}
                         /\ e.from = spdxId)

\* the VEX table
VexTable(typeName) ==
    CASE typeName = "security_VexNotAffectedVulnAssessmentRelationship" -> "not_affected"
      [] typeName = "security_VexFixedVulnAssessmentRelationship" -> "resolved"
      [] OTHER -> "in_triage"

VexTargets(spdxId) ==
    Flatten([k \in 1..Len(MatchingVex(spdxId)) |-> MatchingVex(spdxId)[k].to])

\* the record `rec` is written for the vulnerability `vuln`: its id is the
\* identifier of type "cve", or stands after "/vulnerability/" in the spdxId
WrittenFor(rec, vuln) ==
    IF vuln.cve.some THEN rec.id = vuln.cve.id
    ELSE Find(vuln.spdxId, S_VulnerabilityPath \o rec.id) # 0

RecordsUnder(key) ==
    Flatten([i \in 1..Len(doc) |-> IF doc[i].key = key THEN doc[i].recs ELSE <<>>])

\* C13: after a conversion, for every element of type SpdxVulnerability of a
\* simple-JSON input a vulnerability has been written whose `affects` has one
\* entry for each AFFECTS relationship the index holds for that element
C13_SimpleJsonVulnerabilities ==
    Converted =>
        \A e \in Range(RecordsUnder("elements")) :
            e.type = "SpdxVulnerability"
            => \E w \in Range(Vulnerabilities(Pass3Output)) :
                  Len(w.affects)
                    = Len(SelectSeq(IF e.spdxId \in DOMAIN index THEN index[e.spdxId] ELSE <<>>,
                                    LAMBDA r : r.relationshipType = "AFFECTS"))

\* C14: when the root object has both `elements` and `@graph`, every component
\* written is made from a record of the `elements` array
C14_ElementsWin ==
    ({"elements", "@graph"} \subseteq KeysOf(doc))
    => \A c \in Range(Components(out)) :
          \E e \in Range(RecordsUnder("elements")) :
              /\ e.type \in {"SpdxPackage", "SpdxFile"}
              /\ c.bomRef = ExtractBomRef(e.spdxId)

\* the well-formed CycloneDX document of a finished conversion that is not
\* split: header, `components`, `dependencies` and `vulnerabilities`, each
\* opened and closed once and in this order, then the closing brace
WellFormedCdx(o) ==
    /\ Len(o) >= 10
    /\ o[1].t = "header"
    /\ o[2] = OpenArray("components")
    /\ o[Len(o)] = EndObject
    /\ o[Len(o) - 1] = CloseArray("vulnerabilities")
    /\ \A name \in {"components", "dependencies", "vulnerabilities"} :
          /\ Cardinality(Positions(o, OpenArray(name))) = 1
          /\ Cardinality(Positions(o, CloseArray(name))) = 1
    /\ \E i, j, k \in 1..Len(o) :
          /\ i < j /\ j < k
          /\ SubSeq(o, i, i + 2)
                = <<CloseArray("components"), Comma, OpenArray("dependencies")>>
          /\ SubSeq(o, j, j + 2)
                = <<CloseArray("dependencies"), Comma, OpenArray("vulnerabilities")>>
          /\ o[k] = CloseArray("vulnerabilities")

\* C15: a finished conversion of a root object with neither `elements` nor
\* `@graph` has printed exactly one warning in all its passes together, and
\* has written a well-formed document (the main document closed, with
\* split_vex) with no component
C15_SingleWarning ==
    (Converted /\ KeysOf(doc) \cap {"elements", "@graph"} = {})
    => /\ Len(warnings) = 1
       /\ Components(out) = <<>>
       /\ IF splitVex THEN ClosedCdxDocument(out) ELSE WellFormedCdx(out)

\* C16: with packages_only no component written has the type `file`, and the
\* components are the packages of the input, each written as `library`
C16_NoFileComponents ==
    packagesOnly =>
        /\ \A c \in Range(Components(out)) : c.type = "library"
        /\ Converted =>
              Len(Components(out))
                = Len(SelectSeq(RecordsUnder("elements"),
                                LAMBDA e : e.type = "SpdxPackage"))
                  + Len(SelectSeq(RecordsUnder("@graph"),
                                  LAMBDA e : e.type = "software_Package"))

\* what stands after the first "/vulnerability/" of `spdxId`
AfterVulnerabilityPath(spdxId) ==
    SubSeq(spdxId, Find(spdxId, S_VulnerabilityPath) + Len(S_VulnerabilityPath), Len(spdxId))

\* C17: the id of the i-th vulnerability written is the identifier of type
\* "cve" of the i-th vulnerability of the graph that has a CVE id, or, when it
\* has no such identifier, what stands after "/vulnerability/" in its spdxId;
\* a vulnerability without either, or one that does not decode, has nothing
\* written for it, and once the conversion is done all the others are written
C17_CveIdExtraction ==
    /\ Len(Vulnerabilities(Pass3Output)) <= Len(GraphVulnerabilities)
    /\ Converted => Len(Vulnerabilities(Pass3Output)) = Len(GraphVulnerabilities)
    /\ \A i \in 1..Len(Vulnerabilities(Pass3Output)) :
          Vulnerabilities(Pass3Output)[i].id
            = IF GraphVulnerabilities[i].cve.some
              THEN GraphVulnerabilities[i].cve.id
              ELSE AfterVulnerabilityPath(GraphVulnerabilities[i].spdxId)

-----------------------------------------------------------------------------
(* Properties of the conversion of one component *)

\* the list under `key` of a JSON object, empty when it has no such key
ListOf(json, key) == IF key \in DOMAIN json THEN json[key] ELSE <<>>

\* `licenses[0].expression` of a component
FirstExpression(json) ==
    IF ListOf(json, "licenses") = <<>> THEN None
    ELSE ListOf(json, "licenses")[1].expression

\* a bom-ref of the form extract_bom_ref makes from a URI: a name, a hyphen
\* and hexadecimal digits
UriHashForm(ref) ==
    \E i \in 2..(Len(ref) - 1) :
        /\ ref[i] = "-"
        /\ \A j \in (i + 1)..Len(ref) :
              ref[j] \in {"0", "1", "2", "3", "4", "5", "6", "7", "8", "9",
                          "a", "b", "c", "d", "e", "f"}

\* a component has gone from CycloneDX to SPDX and back through the
\* simple-JSON reader
RoundTripDone == pc = "unit_simple" /\ cdxComponent.some

\* C18: a component that went from CycloneDX to SPDX and back has the name,
\* version, description, purl and cpe it had, as many hashes as it had with
\* the same contents in the same order and the same algorithms up to letter
\* case, SHA-256 and SHA-1 spelled as they were, the same expression in its
\* first license, the scope `required` if it had it, and the same bom-ref
\* when that has no '/' and is not of the URI-hash form
C18_RoundTripPreserves ==
    RoundTripDone =>
        LET orig == cdxComponent.val
            back == cdxResult.val
            hashes == ListOf(orig, "hashes")
        IN  /\ back.name = orig.name
            /\ \A key \in {"version", "description", "purl", "cpe"} :
                  Get(back, key) = Get(orig, key)
            /\ Len(ListOf(back, "hashes")) = Len(hashes)
            /\ \A i \in 1..Len(hashes) :
                  /\ ListOf(back, "hashes")[i].content = hashes[i].content
                  /\ ToUppercase(ListOf(back, "hashes")[i].alg) = ToUppercase(hashes[i].alg)
                  /\ hashes[i].alg \in {A_SHA_256, A_SHA_1}
                        => ListOf(back, "hashes")[i].alg = hashes[i].alg
            /\ FirstExpression(back) = FirstExpression(orig)
            /\ Get(orig, "scope") = Some("required") => Get(back, "scope") = Some("required")
            /\ (/\ \A i \in 1..Len(orig["bom-ref"]) : orig["bom-ref"][i] # "/"
                /\ ~UriHashForm(orig["bom-ref"]))
               => back["bom-ref"] = orig["bom-ref"]

\* a round trip of a component with every field, scope `required`, an
\* expression in its first license, and SHA-256 before SHA-1, which SPDX had
\* in lowercase
C18_Witness ==
    /\ RoundTripDone
    /\ {"version", "description", "purl", "cpe"} \subseteq DOMAIN cdxComponent.val
    /\ cdxComponent.val["bom-ref"] = <<"a">>
    /\ Get(cdxComponent.val, "scope") = Some("required")
    /\ FirstExpression(cdxComponent.val) = Some("MIT")
    /\ ListOf(cdxComponent.val, "hashes")
          = <<[alg |-> A_SHA_256, content |-> "ab"], [alg |-> A_SHA_1, content |-> "ab"]>>
    /\ spdxElement.val.verifiedUsing[1].algorithm = Some(A_sha_256)
    /\ cdxResult.val.hashes = cdxComponent.val.hashes

\* an element of an SPDX document has gone through one of the two readers
ReaderDone == pc \in {"unit_simple", "unit_jsonld"} /\ cdxResult.some

\* the hashes of the element read that have an algorithm and a value
WholeHashes ==
    SelectSeq(ListOf(spdxElement.val, "verifiedUsing"),
              LAMBDA h : h.algorithm.some /\ h.hashValue.some)

\* C19: in both readers of SPDX the algorithm of a hash `sha256` or `SHA-256`
\* becomes `SHA-256` and `sha1` becomes `SHA-1`, a name that is no spelling of
\* these becomes its uppercase form, the name written is one that both
\* readers leave as it is, and both readers give the same name
C19_HashNormalization ==
    ReaderDone =>
        /\ Len(ListOf(cdxResult.val, "hashes")) = Len(WholeHashes)
        /\ \A i \in 1..Len(WholeHashes) :
              LET x == WholeHashes[i].algorithm.val
                  y == ListOf(cdxResult.val, "hashes")[i].alg
              IN  /\ x \in {A_sha256, A_SHA_256} => y = A_SHA_256
                  /\ x = A_sha1 => y = A_SHA_1
                  /\ ToLowercase(x) \notin {A_sha256, A_sha_256, A_sha1, A_sha_1}
                        => y = ToUppercase(x)
                  /\ HandleSpdxElementAlg(y) = y
                  /\ ExtractHashesAlg(y) = y
                  /\ HandleSpdxElementAlg(x) = ExtractHashesAlg(x)

\* a component of a CycloneDX document has been written as an SPDX element
CdxComponentWritten == pc = "unit_spdx" /\ cdxComponent.some

\* C20: a hash of a CycloneDX component is written to SPDX with its algorithm
\* in lowercase and without hyphens, and with its content as it was
C20_CanonicalSpdxSpelling ==
    CdxComponentWritten =>
        LET hashes == ListOf(cdxComponent.val, "hashes")
            verifiedUsing == ListOf(spdxElement.val, "verifiedUsing")
        IN  /\ Len(verifiedUsing) = Len(hashes)
            /\ \A i \in 1..Len(hashes) :
                  /\ verifiedUsing[i].algorithm
                        = Some(SelectSeq(ToLowercase(hashes[i].alg), LAMBDA c : c # "-"))
                  /\ verifiedUsing[i].hashValue = Some(hashes[i].content)

\* C21: a component read from an SPDX element that has a top-level `purl`
\* or an external identifier of type `purl` has a purl, in the simple-JSON
\* reader and in the JSON-LD reader
C21_EitherPurlPlacement ==
    ReaderDone =>
        LET element == spdxElement.val
            ids == ListOf(element, "externalIdentifier")
        IN  (\/ "purl" \in DOMAIN element
             \/ \E i \in 1..Len(ids) :
                   /\ ids[i].externalIdentifierType = Some("purl")
                   /\ ids[i].identifier.some)
            => "purl" \in DOMAIN cdxResult.val

\* the characters of an id after its last '/'
LastSegment(id) ==
    LET k == CHOOSE i \in 1..Len(id) :
                 id[i] = "/" /\ \A j \in (i + 1)..Len(id) : id[j] # "/"
    IN  [i \in 1..(Len(id) - k) |-> id[k + i]]

\* an id begins with the characters of `prefix`
BeginsWith(id, prefix) ==
    /\ Len(id) >= Len(prefix)
    /\ \A i \in 1..Len(prefix) : id[i] = prefix[i]

\* C22: the bom-ref of a component read from an element whose id begins with
\* `http://` or `https://` is a name, a hyphen and the sixteen hexadecimal
\* digits of the hash of the id, the name being the last segment of the id
\* if that has a letter and `element` if not; the bom-ref of any other
\* element is its id without one leading `SPDXRef-`
C22_BomRefForm ==
    (ReaderDone /\ ~cdxComponent.some) =>
        LET id == spdxElement.val.spdxId
            ref == cdxResult.val["bom-ref"]
        IN  IF BeginsWith(id, S_Http) \/ BeginsWith(id, S_Https)
            THEN LET name == IF \E i \in 1..Len(LastSegment(id)) :
                                   LastSegment(id)[i] \in Alphabetic
                             THEN LastSegment(id) ELSE S_Element
                 IN  /\ Len(hashOf[id]) = 16
                     /\ ref = name \o <<"-">> \o hashOf[id]
            ELSE IF BeginsWith(id, S_SPDXRef)
            THEN ref = [i \in 1..(Len(id) - 8) |-> id[i + 8]]
            ELSE ref = id

-----------------------------------------------------------------------------
(* Properties of the command line and of run() *)

\* the versions of CycloneDX the converter writes
TargetVersions == {"1.3", "1.4", "1.5", "1.6", "1.7"}

\* the version the command line asks for: 1.6 when it names none
Requested == IF versionArg.some THEN versionArg.val ELSE "1.6"

\* the records of a file that are the head of a CycloneDX document
Headers(file) == SelectSeq(file, LAMBDA rec : rec.t = "header")

\* C23: from SPDX to CycloneDX the main document and, with split_vex, the VEX
\* document have the `specVersion` the command line asks for, 1.6 when it
\* names none; a version other than 1.3, 1.4, 1.5, 1.6 and 1.7 is rejected
\* before anything is written; from CycloneDX to SPDX no record written has a
\* `specVersion`
C23_SpecVersion ==
    /\ Requested \notin TargetVersions =>
          /\ pc \in {"main", "done"}
          /\ pc = "done" => result = "err" /\ failedAt = "args"
          /\ out = (IF outExists THEN StaleOutput ELSE <<>>)
          /\ ~vexExists /\ ~sideExists
    /\ (Requested \in TargetVersions /\ direction = "SpdxToCdx") =>
          /\ failedAt # "args"
          /\ \A i \in 1..Len(Headers(out)) : Headers(out)[i].specVersion = Requested
          /\ \A i \in 1..Len(Headers(vex)) : Headers(vex)[i].specVersion = Requested
          /\ result = "ok" =>
                /\ Len(Headers(out)) = 1
                /\ Len(Headers(vex)) = (IF splitVex THEN 1 ELSE 0)
    /\ direction = "CdxToSpdx" =>
          /\ \A i \in 1..Len(out) : "specVersion" \notin DOMAIN out[i]
          /\ \A i \in 1..Len(side) : "specVersion" \notin DOMAIN side[i]
          /\ (result = "ok" /\ out # <<>>) => out[1] = SpdxHeader

\* a finished conversion with split_vex that was asked for version 1.3 and
\* has written it to both documents
C23_Witness ==
    /\ result = "ok"
    /\ direction = "SpdxToCdx"
    /\ splitVex
    /\ versionArg = Some("1.3")
    /\ out[1].specVersion = "1.3"
    /\ vex[1].specVersion = "1.3"

\* the run asks for SPDX in XML, or for validation of an input that does not
\* pass it
PreflightFails ==
    \/ inputFormat = "Xml" /\ direction = "SpdxToCdx"
    \/ outputFormat = "Xml" /\ direction = "CdxToSpdx"
    \/ validate /\ ~schemaValid

\* no file has been created or written and no pass has read anything
NothingStarted ==
    /\ out = (IF outExists THEN StaleOutput ELSE <<>>)
    /\ ~sideExists /\ side = <<>> /\ cdxInput = <<>>
    /\ ~vexExists /\ vex = <<>>
    /\ index = <<>> /\ sec = 0 /\ pos = 0 /\ serialNumber = <<>>

\* C24: a run that asks for SPDX in XML as input or as output, or whose
\* input fails the validation it asks for, ends with an error before the
\* output file is created or truncated and before any pass has started
C24_PreflightFatal ==
    /\ PreflightFails =>
          /\ pc \in {"main", "preflight", "done"}
          /\ pc = "done" => result = "err"
          /\ NothingStarted
    /\ failedAt \in {"unsupported_input", "unsupported_output", "validation"} =>
          PreflightFails /\ result = "err" /\ pc = "done"

\* a run that failed the validation and left the output file that was there
\* as it was
C24_Witness ==
    /\ pc = "done"
    /\ failedAt = "validation"
    /\ outExists
    /\ out = StaleOutput

\* the number of records of kind `t` in a file
Count(file, t) == Len(SelectSeq(file, LAMBDA rec : rec.t = t))

\* the number of relationships in the index
RECURSIVE EntriesOf(_, _)
EntriesOf(idx, keys) ==
    IF keys = {} THEN 0
    ELSE LET k == CHOOSE key \in keys : TRUE
         IN  Len(idx[k]) + EntriesOf(idx, keys \ {k})

\* C25: after a conversion from CycloneDX to SPDX the elements counter is the
\* number of records of `elements` and the relationships counter the number
\* of relationship records, DEPENDS_ON and AFFECTS, that went through the
\* side file; from SPDX to CycloneDX the relationships counter is the number
\* of entries of the index
C25_CountersMatchRecords ==
    /\ (direction = "CdxToSpdx" /\ Converted) =>
          /\ elementsProcessed = Count(out, "element")
          /\ relationshipsProcessed = Len(side)
          /\ relationshipsProcessed = Count(out, "relationship")
    /\ direction = "SpdxToCdx" =>
          relationshipsProcessed = EntriesOf(index, DOMAIN index)

-----------------------------------------------------------------------------
(* Properties of the streaming *)

\* the records read so far from the sections of `sections` with a key in `keys`
RECURSIVE RecordsIn(_, _)
RecordsIn(sections, keys) ==
    IF sections = <<>> THEN <<>>
    ELSE (IF Head(sections).key \in keys THEN Head(sections).recs ELSE <<>>)
            \o RecordsIn(Tail(sections), keys)

\* the number of relationship lines the records of `recs` stand for
RECURSIVE TargetsOf(_)
TargetsOf(recs) ==
    IF recs = <<>> THEN 0
    ELSE (IF "dependsOn" \in DOMAIN Head(recs) THEN Len(Head(recs).dependsOn)
          ELSE IF Head(recs).affects.some THEN Len(Head(recs).affects.refs)
          ELSE 0)
            + TargetsOf(Tail(recs))

\* the visitor of CycloneDX -> SPDX is between two records
CdxStreaming ==
    /\ direction = "CdxToSpdx"
    /\ pc \in {"visit_map", "components", "dependencies", "vulnerabilities"}

\* the visitor of Pass 2 is between two records
Pass2Streaming == pc \in {"p2_map", "p2_elements", "p2_graph"}

\* the part of the SPDX input Pass 2 has read: the sections before the one
\* the reader is in, and of that one the records up to the reader's position
Pass2Read ==
    [i \in 1..sec |->
        [key |-> doc[i].key,
         recs |-> IF i = sec /\ pc # "p2_map"
                  THEN [j \in 1..pos |-> doc[i].recs[j]]
                  ELSE doc[i].recs]]

\* the records Pass 2 has read that are packages or files
Pass2Components ==
    SelectSeq(RecordsIn(Pass2Read, {"elements", "@graph"}),
              LAMBDA rec : rec.type \in {"SpdxPackage", "software_Package",
                                         "SpdxFile", "software_File"})

\* between two records everything read so far has been written: as many
\* elements and side-file lines, or components, as the records read stand
\* for, the last one written being the last one read; and no collection of
\* records is held in memory
StreamedOut ==
    /\ CdxStreaming =>
          /\ Count(out, "element")
                = Len(RecordsIn(cdxInput, {"components", "vulnerabilities"}))
          /\ Len(side) = TargetsOf(RecordsIn(cdxInput, {"dependencies", "vulnerabilities"}))
          /\ index = <<>> /\ vulnerabilities = <<>> /\ vexRelationships = <<>>
    /\ Pass2Streaming =>
          /\ Count(out, "component") = Len(Pass2Components)
          /\ Pass2Components # <<>> =>
                out[Len(out)].t = "component"
                /\ out[Len(out)].bomRef
                      = ExtractBomRef(Pass2Components[Len(Pass2Components)].spdxId)
          /\ vulnerabilities = <<>> /\ vexRelationships = <<>>

\* C26: while CycloneDX -> SPDX and Pass 2 of SPDX -> CycloneDX stream an
\* array, every record read has been written to the main output or to the
\* side file before the next one is read, no component, dependency,
\* vulnerability or relationship is collected in memory, and Pass 2 leaves
\* the index as Pass 1 made it
C26_OneRecordLive ==
    /\ []StreamedOut
    /\ [][Pass2Streaming => index' = index]_vars

\* Pass 2 between the second and the third record of `elements`, with the
\* first of them written as a component and an index that is not empty
C26_Witness ==
    /\ pc = "p2_elements"
    /\ pos = 2
    /\ Count(out, "component") = 1
    /\ index # <<>>

\* A token of a file that is one JSON object of an array
IsRecord(token) ==
    token.t \in {"element", "relationship", "component", "dependency", "vulnerability"}

\* In `file`, every object of an array stands right after the opening of
\* its array or right after a separator, and every separator stands between
\* two objects
Separated(file) ==
    \A i \in 1..Len(file) :
        /\ IsRecord(file[i]) => i > 1 /\ file[i - 1].t \in {"open", "sep"}
        /\ file[i].t = "sep" => /\ i > 1 /\ IsRecord(file[i - 1])
                                /\ i < Len(file) /\ IsRecord(file[i + 1])

-----------------------------------------------------------------------------
(* Properties of the order of the input *)

\* The arrays of an input, in the order of the document, with what Pass 1
\* reads taken out: the `relationships` keys and, in `@graph`, the
\* relationship entries
WithoutRelationships(d) ==
    LET kept == SelectSeq(d, LAMBDA s : s.key \in {"elements", "@graph"})
    IN  [i \in 1..Len(kept) |->
            IF kept[i].key = "@graph"
            THEN Section("@graph",
                         SelectSeq(kept[i].recs,
                                   LAMBDA e : e.type \notin {"Relationship",
                                                             "LifecycleScopedRelationship"}))
            ELSE kept[i]]

\* The relationships of an input, in the order of the document, with what
\* Pass 2 reads taken out: the `elements` keys and, in `@graph`, all but
\* the relationship entries
OnlyRelationships(d) ==
    LET kept == SelectSeq(d, LAMBDA s : s.key \in {"relationships", "@graph"})
    IN  [i \in 1..Len(kept) |->
            IF kept[i].key = "@graph"
            THEN Section("@graph",
                         SelectSeq(kept[i].recs,
                                   LAMBDA e : e.type \in {"Relationship",
                                                          "LifecycleScopedRelationship"}))
            ELSE kept[i]]

\* The components of the arrays `d`, one array after the other
ComponentsFor(d) ==
    Flatten([i \in 1..Len(d) |->
                Flatten([j \in 1..Len(d[i].recs) |->
                            IF d[i].key = "@graph"
                            THEN JsonLdGraphPass2Entry(d[i].recs[j], TRUE)
                            ELSE HandleSpdxElement(d[i].recs[j], TRUE)])])

\* The dependency edges of the relationships `d`, as pairs of bom-refs
EdgesFor(d) ==
    UNION {IF d[i].key = "@graph"
           THEN UNION {{<<ExtractBomRef(r.from), ExtractBomRef(r.to[k])>> :
                           k \in 1..Len(r.to)} :
                          r \in {x \in Range(d[i].recs) : IsDependsOn(x.relationshipType)}}
           ELSE {<<ExtractBomRef(r.spdxElementId), ExtractBomRef(r.relatedSpdxElement)>> :
                    r \in {x \in Range(d[i].recs) : IsDependsOn(x.relationshipType)}}
           : i \in 1..Len(d)}

\* The components of a CycloneDX file, in the order written
ComponentsOf(file) == SelectSeq(file, LAMBDA token : token.t = "component")

\* The dependency edges of a CycloneDX file
EdgesOf(file) ==
    UNION {{<<file[i].ref, file[i].dependsOn[k]>> : k \in 1..Len(file[i].dependsOn)} :
              i \in {j \in 1..Len(file) : file[j].t = "dependency"}}

\* Pass 2 has closed the `dependencies` array
DependenciesClosed == \E i \in 1..Len(out) : out[i] = CloseArray("dependencies")

\* C28: once `dependencies` is closed, the components written are those of
\* the element arrays alone, in their order, and the dependency edges
\* written are those of the relationships alone: neither depends on where
\* `relationships` stands among the root keys, nor on where the relationship
\* entries stand among the other entries of `@graph`
C28_RootKeyOrder ==
    DependenciesClosed =>
        /\ ComponentsOf(out) = ComponentsFor(WithoutRelationships(doc))
        /\ EdgesOf(out) = EdgesFor(OnlyRelationships(doc))

\* A finished conversion of `relationships` followed by `elements`, with a
\* component and a dependency edge written
C28_Witness ==
    /\ result = "ok"
    /\ Len(doc) = 2
    /\ doc[1].key = "relationships"
    /\ doc[2].key = "elements"
    /\ ComponentsOf(out) # <<>>
    /\ EdgesOf(out) # {}

\* C29: a vulnerability Pass 3 has written has the analysis state
\* `not_affected` only if VEX relationships of the graph have its spdxId as
\* `from` and the first of them in input order is a
\* security_VexNotAffectedVulnAssessmentRelationship; one without any VEX
\* relationship is not written as `not_affected`
C29_NotAffectedOnlyFromVex ==
    \A i \in 1..Len(Vulnerabilities(Pass3Output)) :
        (/\ i <= Len(GraphVulnerabilities)
         /\ Vulnerabilities(Pass3Output)[i].state = "not_affected")
            => LET matching == MatchingVex(GraphVulnerabilities[i].spdxId)
               IN  /\ matching # <<>>
                   /\ matching[1].type = "security_VexNotAffectedVulnAssessmentRelationship"

-----------------------------------------------------------------------------
(* Properties of the ProgressTracker *)

\* C30: whatever the interleaving of the threads, increment_element
\* evaluates `count - last` with last <= count only, and when every thread
\* has made all its calls the element counter is the number of calls made
C30_NoUnderflow ==
    /\ \A t \in Threads : tpc[t] = "compare" => lastLoaded[t] <= count[t]
    /\ (\A t \in Threads : tpc[t] = "idle" /\ calls[t] = CallsPerThread)
          => elementsProcessed = NumThreads * CallsPerThread

====
